---- MODULE Spec2Model ----
(***************************************************************************)
(* Team Creator (TeamCreator.py): squad assembly from a player pool and    *)
(* the writers that append the squad to the game's tab-delimited tables.   *)
(*                                                                         *)
(* Sequences are 1-based: formation slot idx (0..10) of the source is      *)
(* position idx + 1 of starting_eleven, roster index i is position i + 1.  *)
(* A file's text is a sequence of tokens: a newline, or the text of one    *)
(* line without its newline (a header or a data row).  Of a row only the   *)
(* cells the writers compute are kept; templated constants are left out.   *)
(* None is NoPlayer / -1 / the empty sequence; a cell that is not a digit  *)
(* string is a negative number ("-1".isdigit() is False).                  *)
(***************************************************************************)
EXTENDS Integers, Sequences, FiniteSets, TLC

\* ------------------------------------------------------------------ bounds
MaxPool == 30      \* largest number of rows in a player file
MaxSeed == 2       \* seeds of the generated player files: 0..MaxSeed
MaxRuns == 2       \* sequential team-creation runs on the same files
MaxFileLen == 103  \* longest file given to the encoding detection, in bytes
MaxProcs == 2      \* team-creation runs that share a table at the same time

\* --------------------------------------------------------------- constants
POSITION_PENALTY == 3
max_squad_size == 26
MaxSubs == 7
SheetSlots == 52
FreeAgentTeam == 111592
NationalLeague == 78
SubCode == 28
ReserveCode == 29
LinkKeyDefault == 26271
MentalityIdDefault == 3
FormationIdDefault == 1
LeagueKeyDefault == 0
ManagerIdDefault == 254782
KitIdDefault == 17127
SampleSize == 100

\* ------------------------------------------------------------------ helpers
Range(s) == { s[i] : i \in DOMAIN s }

Ids(s) == { s[i].playerid : i \in DOMAIN s }

IdSeq(s) == [ i \in 1..Len(s) |-> s[i].playerid ]

Max(S) == CHOOSE m \in S : \A x \in S : x <= m

Min2(a, b) == IF a <= b THEN a ELSE b

\* the elements of s at the indices in S, in the order of s
RECURSIVE Keep(_, _, _)
Keep(s, S, i) ==
  IF i > Len(s) THEN << >>
  ELSE (IF i \in S THEN << s[i] >> ELSE << >>) \o Keep(s, S, i + 1)

\* s[:n]
Take(s, n) == SubSeq(s, 1, Min2(n, Len(s)))

\* s[n:]
Drop(s, n) == SubSeq(s, n + 1, Len(s))

Place(t, x, k) == SubSeq(t, 1, k) \o << x >> \o SubSeq(t, k + 1, Len(t))

\* sorted(s, key=ovr, reverse=True): stable, equal ratings keep their order
InsertOvrDesc(t, x) ==
  Place(t, x, Cardinality({ i \in 1..Len(t) : t[i].ovr >= x.ovr }))

RECURSIVE SortOvrDesc(_)
SortOvrDesc(s) ==
  IF s = << >> THEN << >>
  ELSE InsertOvrDesc(SortOvrDesc(SubSeq(s, 1, Len(s) - 1)), s[Len(s)])

\* ------------------------------------------------------------ player pools
NoPlayer == [playerid |-> -1, ovr |-> -1, pos1 |-> "None"]

PosCycle ==
  << "GK", "CB", "ST", "CM", "RB", "LW", "CDM", "LB", "RW", "CAM", "CB",
     "SW", "RM", "CF", "RWB", "LM", "CM", "LWB", "ST", "GK", "RCB" >>

\* Row i of the player file generated from the seeds a, b; with dup the fifth
\* row repeats the id of the first.
FileRow(i, a, b, dup) ==
  [ playerid |-> IF dup /\ i = 5 THEN 101 ELSE 100 + i,
    ovr      |-> 60 + ((a * i * i + (b + 3) * i + 7 * a * b) % 23),
    pos1     |-> PosCycle[((i * (2 * a + 1) + b) % Len(PosCycle)) + 1] ]

\* ------------------------------------------------------- create_balanced_squad
\* formation_slots: (index, name, game_id, acceptable pos1 values by priority)
formation_slots ==
  << [name |-> "GK",  game_id |-> 0,  acceptable |-> << "GK" >>],
     [name |-> "RB",  game_id |-> 3,  acceptable |-> << "RB", "RWB", "CB" >>],
     [name |-> "RCB", game_id |-> 4,  acceptable |-> << "CB" >>],
     [name |-> "LCB", game_id |-> 6,  acceptable |-> << "CB" >>],
     [name |-> "LB",  game_id |-> 7,  acceptable |-> << "LB", "LWB", "CB" >>],
     [name |-> "CDM", game_id |-> 10, acceptable |-> << "CDM", "CM", "CAM" >>],
     [name |-> "RCM", game_id |-> 13, acceptable |-> << "CM", "CDM", "CAM" >>],
     [name |-> "LCM", game_id |-> 15, acceptable |-> << "CM", "CDM", "CAM" >>],
     [name |-> "RW",  game_id |-> 23, acceptable |-> << "RW", "RM", "ST", "CAM" >>],
     [name |-> "ST",  game_id |-> 25, acceptable |-> << "ST", "CF", "RW", "LW" >>],
     [name |-> "LW",  game_id |-> 27, acceptable |-> << "LW", "LM", "ST", "CAM" >>] >>

NumSlots == Len(formation_slots)

defense_pos == << "CB", "RB", "LB", "RWB", "LWB" >>
midfield_pos == << "CDM", "CM", "CAM", "RM", "LM" >>
attack_pos == << "ST", "CF", "RW", "LW" >>

\* used_players: the ids of the players bound so far
UsedIds(eleven) ==
  { eleven[i].playerid : i \in { j \in DOMAIN eleven : eleven[j] # NoPlayer } }

\* the filter without the used_players test
AvailableAnyone(pool, used) == pool

\* [p for p in pool if p['playerid'] not in used_players]
Available(pool, used) ==
  Keep(pool, { i \in DOMAIN pool : pool[i].playerid \notin used }, 1)

\* [p for p in pool if p['playerid'] not in used_players and p['pos1'] == pos]
AvailableAt(pool, used, pos) ==
  Keep(pool, { i \in DOMAIN pool :
                 pool[i].playerid \notin used /\ pool[i].pos1 = pos }, 1)

\* the score without the position penalty
ScoreNoPenalty(ovr, priority) == ovr

\* score = ovr - (priority * POSITION_PENALTY)
Score(ovr, priority) == ovr - (priority * POSITION_PENALTY)

\* The (player, score) pairs in the order the two nested loops of PASS 1 visit
\* them: acceptable positions by priority, all_field order inside a priority.
RECURSIVE Candidates(_, _, _, _)
Candidates(p, acceptable, all_field, used) ==
  IF p > Len(acceptable) THEN << >>
  ELSE LET match == AvailableAt(all_field, used, acceptable[p])
       IN  [ i \in 1..Len(match) |->
               [player |-> match[i], score |-> Score(match[i].ovr, p - 1)] ]
           \o Candidates(p + 1, acceptable, all_field, used)

\* mutant candidate: a candidate of equal score replaces the best one so far
RECURSIVE ScanBestLast(_, _, _, _)
ScanBestLast(cands, k, best_candidate, best_score) ==
  IF k > Len(cands) THEN best_candidate
  ELSE IF cands[k].score >= best_score
       THEN ScanBestLast(cands, k + 1, cands[k].player, cands[k].score)
       ELSE ScanBestLast(cands, k + 1, best_candidate, best_score)

\* if score > best_score: best_score = score; best_candidate = player
RECURSIVE ScanBest(_, _, _, _)
ScanBest(cands, k, best_candidate, best_score) ==
  IF k > Len(cands) THEN best_candidate
  ELSE IF cands[k].score > best_score
       THEN ScanBest(cands, k + 1, cands[k].player, cands[k].score)
       ELSE ScanBest(cands, k + 1, best_candidate, best_score)

BestCandidate(acceptable, all_field, used) ==
  ScanBest(Candidates(1, acceptable, all_field, used), 1, NoPlayer, -999)

\* PASS 1, slots k..11 in formation order
RECURSIVE Pass1(_, _, _, _)
Pass1(k, eleven, all_gks, all_field) ==
  IF k > NumSlots THEN eleven
  ELSE IF eleven[k] # NoPlayer THEN Pass1(k + 1, eleven, all_gks, all_field)
  ELSE IF formation_slots[k].name = "GK"
  THEN LET available == Available(all_gks, UsedIds(eleven))
       IN  IF available # << >>
           THEN Pass1(k + 1, [eleven EXCEPT ![k] = available[1]], all_gks, all_field)
           ELSE Pass1(k + 1, eleven, all_gks, all_field)
  ELSE LET best == BestCandidate(formation_slots[k].acceptable, all_field,
                                 UsedIds(eleven))
       IN  IF best # NoPlayer
           THEN Pass1(k + 1, [eleven EXCEPT ![k] = best], all_gks, all_field)
           ELSE Pass1(k + 1, eleven, all_gks, all_field)

search_order(name) ==
  IF name \in { "RB", "RCB", "LCB", "LB" } THEN defense_pos \o midfield_pos
  ELSE IF name \in { "CDM", "RCM", "LCM" }
       THEN midfield_pos \o defense_pos \o attack_pos
       ELSE attack_pos \o midfield_pos

\* the first unused player of all_field whose pos1 is the earliest position of
\* the search order that any unused player has
RECURSIVE Backup(_, _, _, _)
Backup(s, order, all_field, used) ==
  IF s > Len(order) THEN NoPlayer
  ELSE LET match == AvailableAt(all_field, used, order[s])
       IN  IF match # << >> THEN match[1]
           ELSE Backup(s + 1, order, all_field, used)

\* PASS 2, slots k..11 in formation order
RECURSIVE Pass2(_, _, _)
Pass2(k, eleven, all_field) ==
  IF k > NumSlots THEN eleven
  ELSE IF eleven[k] # NoPlayer \/ formation_slots[k].name = "GK"
  THEN Pass2(k + 1, eleven, all_field)
  ELSE LET player == Backup(1, search_order(formation_slots[k].name), all_field,
                            UsedIds(eleven))
       IN  IF player # NoPlayer
           THEN Pass2(k + 1, [eleven EXCEPT ![k] = player], all_field)
           ELSE Pass2(k + 1, eleven, all_field)

\* a last resort that fills any slot from both pools
RECURSIVE Pass3AnyPool(_, _, _, _)
Pass3AnyPool(k, eleven, all_gks, all_field) ==
  IF k > NumSlots THEN eleven
  ELSE IF eleven[k] # NoPlayer
  THEN Pass3AnyPool(k + 1, eleven, all_gks, all_field)
  ELSE LET available == Available(all_field \o all_gks, UsedIds(eleven))
       IN  IF available # << >>
           THEN Pass3AnyPool(k + 1, [eleven EXCEPT ![k] = available[1]],
                             all_gks, all_field)
           ELSE Pass3AnyPool(k + 1, eleven, all_gks, all_field)

\* PASS 3, slots k..11 in formation order
RECURSIVE Pass3(_, _, _, _)
Pass3(k, eleven, all_gks, all_field) ==
  IF k > NumSlots THEN eleven
  ELSE IF eleven[k] # NoPlayer THEN Pass3(k + 1, eleven, all_gks, all_field)
  ELSE LET available ==
             IF formation_slots[k].name = "GK"
             THEN Available(all_gks, UsedIds(eleven))
             ELSE Available(all_field, UsedIds(eleven))
       IN  IF available # << >>
           THEN Pass3(k + 1, [eleven EXCEPT ![k] = available[1]], all_gks, all_field)
           ELSE Pass3(k + 1, eleven, all_gks, all_field)

\* a max that keeps the last of the players with the largest ovr
LastMax(s) ==
  s[CHOOSE i \in 1..Len(s) :
      /\ \A j \in 1..Len(s) : s[j].ovr <= s[i].ovr
      /\ \A j \in (i + 1)..Len(s) : s[j].ovr < s[i].ovr]

\* max(field_players, key=ovr): the first player of the list with the largest ovr
FirstMax(s) ==
  s[CHOOSE i \in 1..Len(s) :
      /\ \A j \in 1..Len(s) : s[j].ovr <= s[i].ovr
      /\ \A j \in 1..(i - 1) : s[j].ovr < s[i].ovr]

\* captain: highest-rated outfield player of the starting eleven
Captain(eleven) ==
  LET field_players == Keep(eleven, { i \in DOMAIN eleven :
                              eleven[i] # NoPlayer /\ eleven[i].pos1 # "GK" }, 1)
  IN  IF field_players # << >> THEN FirstMax(field_players).playerid
      ELSE eleven[1].playerid


\* self.game_position_ids = [slot[2] for slot in formation_slots]
game_position_ids == [ k \in 1..NumSlots |-> formation_slots[k].game_id ]

\* load_formations(): "none" is process_files called without a formation;
\* 4-5-1 is one of the selectable formations that come without position data
SelectableFormations == { "none", "4-3-3", "4-4-2", "3-1-4-2", "4-5-1" }

\* selected_formation.get('position0', '0') .. get('position10', '27')
formation_positions(formation) ==
  CASE formation = "4-4-2"   -> << 0, 3, 4, 6, 7, 12, 13, 15, 16, 24, 26 >>
    [] formation = "3-1-4-2" -> << 0, 4, 5, 6, 10, 12, 13, 15, 16, 24, 26 >>
    [] OTHER                 -> << 0, 3, 4, 6, 7, 10, 13, 15, 23, 25, 27 >>

\* ------------------------------------------------------ detect_file_encoding
\* the bytes FF FE
Utf16LeBom == << 255, 254 >>

\* sample.count(b'\x00')
NullCount(sample) == Cardinality({ i \in DOMAIN sample : sample[i] = 0 })

\* a detection that also takes a sample with exactly 30% zero bytes as UTF-16
OverThresholdInclusive(null_count, sample_len) ==
  sample_len > 0 /\ 10 * null_count >= 3 * sample_len

\* len(sample) > 0 and null_count > len(sample) * 0.3; the float product is
\* the exact 3 * len / 10 for every len up to the sample size, so the test is
\* the integer comparison
OverThreshold(null_count, sample_len) ==
  sample_len > 0 /\ 10 * null_count > 3 * sample_len

detect_file_encoding(bytes) ==
  LET header == Take(bytes, 4)
      sample == Take(bytes, SampleSize)
  IN  IF Take(header, 2) = Utf16LeBom THEN "utf-16-le"
      ELSE IF OverThreshold(NullCount(sample), Len(sample)) THEN "utf-16-le"
      ELSE "utf-8"

\* The files given to the detection: len bytes of which zeros are zero bytes,
\* at the front or at the back, after a byte-order mark or without one.
FileBytes(len, zeros, front, bom) ==
  LET body == [ i \in 1..len |->
                  IF (front /\ i <= zeros) \/ (~front /\ i > len - zeros)
                  THEN 0 ELSE 65 ]
  IN  IF bom THEN Utf16LeBom \o body ELSE body

\* ---------------------------------------------------------------- file text
Tok(kind, key, teamid, playerid, position, pids, ref) ==
  [ kind |-> kind, key |-> key, teamid |-> teamid, playerid |-> playerid,
    position |-> position, pids |-> pids, ref |-> ref, positions |-> << >> ]

\* "\n"
NL == Tok("nl", -1, -1, -1, -1, << >>, -1)

\* a header line; key = 1 when it names the file's key column
HeaderLine(named) == Tok("header", IF named THEN 1 ELSE 0, -1, -1, -1, << >>, -1)

DataRow(key, teamid, playerid, position, pids, ref) ==
  Tok("row", key, teamid, playerid, position, pids, ref)

\* content.endswith('\n')
EndsWithNewline(content) == content # << >> /\ content[Len(content)] = NL

\* a newline added whether or not the content ends with one
AlwaysNewline(content) == content \o << NL >>

\* if content and not content.endswith('\n'): content += '\n'
EnsureNewline(content) ==
  IF content # << >> /\ ~EndsWithNewline(content) THEN content \o << NL >>
  ELSE content

\* '\n'.join(rows)
RECURSIVE JoinLines(_)
JoinLines(rows) ==
  IF Len(rows) <= 1 THEN rows
  ELSE << rows[1], NL >> \o JoinLines(Tail(rows))

\* a write that drops the text that was read
RowsOnly(content, rows) == JoinLines(rows)

\* file.write(content + template)
AppendText(content, rows) == EnsureNewline(content) \o JoinLines(rows)

\* file.readlines(): the lines of the text, each with its newline
RECURSIVE ReadLines(_, _, _)
ReadLines(content, i, line) ==
  IF i > Len(content) THEN (IF line = << >> THEN << >> ELSE << line >>)
  ELSE IF content[i] = NL
       THEN << line \o << NL >> >> \o ReadLines(content, i + 1, << >>)
       ELSE ReadLines(content, i + 1, line \o << content[i] >>)

\* file.writelines(lines)
RECURSIVE WriteLines(_)
WriteLines(lines) ==
  IF lines = << >> THEN << >> ELSE Head(lines) \o WriteLines(Tail(lines))

\* line.strip().split('\t'): the cells of a line
Cells(line) == line[1]

\* parse_file_header(...).get(<key column>) is not None
HeaderNamesKey(content) ==
  LET lines == ReadLines(content, 1, << >>)
  IN  /\ lines # << >>
      /\ Cells(lines[1]).kind = "header"
      /\ Cells(lines[1]).key = 1

\* get_highest_id_from_file: the first line is skipped, digit cells only
get_highest_id_from_file(content, default_value) ==
  LET lines == ReadLines(content, 1, << >>)
      id_values == { Cells(lines[i]).key :
                       i \in { j \in 2..Len(lines) :
                                 /\ Cells(lines[j]).kind = "row"
                                 /\ Cells(lines[j]).key >= 0 } }
  IN  IF lines = << >> THEN default_value
      ELSE IF id_values # {} THEN Max(id_values)
      ELSE default_value

\* re.findall(r'^(\d+)', content, re.MULTILINE): digits at the start of a line
next_kit_id(content) ==
  LET kit_ids == { content[i].key :
                     i \in { j \in DOMAIN content :
                               content[j].kind = "row" /\ content[j].key >= 0 } }
  IN  IF kit_ids # {} THEN Max(kit_ids) + 1 ELSE KitIdDefault

\* mutant candidate: the table is rewritten without removing any line
RemoveNoLinks(content, our_player_ids) ==
  WriteLines(ReadLines(content, 1, << >>))

\* mutant candidate: every link to team 111592 is removed, whoever the player
RemoveEveryFreeAgentLink(content, our_player_ids) ==
  LET lines == ReadLines(content, 1, << >>)
      lines_to_remove == { i \in 1..Len(lines) :
                             Cells(lines[i]).teamid = FreeAgentTeam }
  IN  WriteLines(Keep(lines, (1..Len(lines)) \ lines_to_remove, 1))

\* the rewrite that drops our players' links to team 111592
RemoveFreeAgentLinks(content, our_player_ids) ==
  LET lines == ReadLines(content, 1, << >>)
      lines_to_remove == { i \in 1..Len(lines) :
                             /\ Cells(lines[i]).teamid = FreeAgentTeam
                             /\ Cells(lines[i]).playerid \in our_player_ids }
  IN  WriteLines(Keep(lines, (1..Len(lines)) \ lines_to_remove, 1))

\* ------------------------------------------------------------------ rosters
Bucket(s, bucket) == Keep(s, { i \in DOMAIN s : s[i].pos1 \in Range(bucket) }, 1)

\* a bench that is not filtered by starting_player_ids
LinkBenchAll(gks, field, eleven, national) ==
  SortOvrDesc(gks) \o SortOvrDesc(field)

\* additional_players of append_to_teamplayerlinks_file
LinkBench(gks, field, eleven, national) ==
  LET starting_player_ids == UsedIds(eleven)
      backup_gks == SortOvrDesc(Available(gks, starting_player_ids))
      outfield_players == SortOvrDesc(Available(field, starting_player_ids))
  IN  IF national THEN Take(backup_gks, 1) \o outfield_players
      ELSE backup_gks \o outfield_players

\* a cut that gives the forwards a third of the free places as well
LimitSquadEqualShares(all_players) ==
  LET rest == Drop(all_players, NumSlots)
      remaining_gks == Keep(rest, { i \in DOMAIN rest : rest[i].pos1 = "GK" }, 1)
      squad0 == Take(all_players, NumSlots) \o Take(remaining_gks, 1)
      remaining_spots == max_squad_size - Len(squad0)
      remaining_outfield ==
        Keep(rest, { i \in DOMAIN rest : rest[i].pos1 # "GK" }, 1)
      defenders == Bucket(remaining_outfield, defense_pos)
      midfielders == Bucket(remaining_outfield, midfield_pos)
      forwards == Bucket(remaining_outfield, attack_pos)
      squad1 == squad0
        \o Take(defenders, Min2(Len(defenders), remaining_spots \div 3))
        \o Take(midfielders, Min2(Len(midfielders), remaining_spots \div 3))
        \o Take(forwards, Min2(Len(forwards), remaining_spots \div 3))
      remaining_players ==
        SortOvrDesc(Keep(rest, { i \in DOMAIN rest :
                                   rest[i] \notin Range(squad1) }, 1))
  IN  squad1 \o Take(remaining_players, max_squad_size - Len(squad1))

\* limited_squad: the national roster cut to max_squad_size
LimitSquad(all_players) ==
  LET rest == Drop(all_players, NumSlots)
      remaining_gks == Keep(rest, { i \in DOMAIN rest : rest[i].pos1 = "GK" }, 1)
      squad0 == Take(all_players, NumSlots) \o Take(remaining_gks, 1)
      remaining_spots == max_squad_size - Len(squad0)
      remaining_outfield ==
        Keep(rest, { i \in DOMAIN rest : rest[i].pos1 # "GK" }, 1)
      defenders == Bucket(remaining_outfield, defense_pos)
      midfielders == Bucket(remaining_outfield, midfield_pos)
      forwards == Bucket(remaining_outfield, attack_pos)
      def_count == Min2(Len(defenders), remaining_spots \div 3)
      mid_count == Min2(Len(midfielders), remaining_spots \div 3)
      fwd_count == Min2(Len(forwards), remaining_spots - def_count - mid_count)
      squad1 == squad0 \o Take(defenders, def_count)
                       \o Take(midfielders, mid_count)
                       \o Take(forwards, fwd_count)
      spots_left == max_squad_size - Len(squad1)
      remaining_players ==
        SortOvrDesc(Keep(rest, { i \in DOMAIN rest :
                                   rest[i] \notin Range(squad1) }, 1))
  IN  IF spots_left > 0 THEN squad1 \o Take(remaining_players, spots_left)
      ELSE squad1

\* the roster without the national cap
LinkRosterUncapped(gks, field, eleven, national) ==
  eleven \o LinkBench(gks, field, eleven, national)

\* all_players of append_to_teamplayerlinks_file: the roster it writes
LinkRoster(gks, field, eleven, national) ==
  LET all_players == eleven \o LinkBench(gks, field, eleven, national)
  IN  IF national /\ Len(all_players) > max_squad_size
      THEN LimitSquad(all_players)
      ELSE all_players

\* position_ids of append_to_teamplayerlinks_file
LinkPositionIds(gks, field, eleven, national) ==
  LET pool == gks \o field
      total_available_players ==
        Len(eleven) + Cardinality({ i \in DOMAIN pool :
                                      pool[i] \notin Range(eleven) })
      additional_players_count == total_available_players - Len(eleven)
      sub_position_ids ==
        [ i \in 1..additional_players_count |->
            IF national \/ i <= MaxSubs THEN SubCode ELSE ReserveCode ]
  IN  Take(game_position_ids \o sub_position_ids, total_available_players)

\* the rows append_to_teamplayerlinks_file composes for all_players
LinkRows(all_players, position_ids, next_key, team) ==
  [ i \in 1..Len(all_players) |->
      DataRow(next_key + (i - 1), team, all_players[i].playerid,
              IF i <= Len(position_ids) THEN position_ids[i] ELSE ReserveCode,
              << >>, -1) ]

\* self.position_order.get(pos1, 999)
pos_order(pos1) ==
  CASE pos1 = "GK" -> 0 [] pos1 = "CB" -> 1 [] pos1 = "RB" -> 2
    [] pos1 = "LB" -> 3 [] pos1 = "CDM" -> 4 [] pos1 = "CM" -> 5
    [] pos1 = "CAM" -> 6 [] pos1 = "RM" -> 7 [] pos1 = "LM" -> 8
    [] pos1 = "ST" -> 9 [] pos1 = "CF" -> 10 [] OTHER -> 999

\* field_players.sort(key=lambda x: (pos_order, -ovr)): stable, ascending
SheetKeyLE(x, y) ==
  \/ pos_order(x.pos1) < pos_order(y.pos1)
  \/ pos_order(x.pos1) = pos_order(y.pos1) /\ x.ovr >= y.ovr

InsertPosOrder(t, x) ==
  Place(t, x, Cardinality({ i \in 1..Len(t) : SheetKeyLE(t[i], x) }))

RECURSIVE SortPosOrder(_)
SortPosOrder(s) ==
  IF s = << >> THEN << >>
  ELSE InsertPosOrder(SortPosOrder(SubSeq(s, 1, Len(s) - 1)), s[Len(s)])

\* additional_players of append_to_teamsheets_file (no limited_squad yet)
SheetBench(gks, field, eleven, national) ==
  LET starting_player_ids == UsedIds(eleven)
      backup_gks == SortOvrDesc(Available(gks, starting_player_ids))
      field_players == SortPosOrder(Available(field, starting_player_ids))
  IN  IF national
      THEN Take(Take(backup_gks, 1) \o field_players, max_squad_size - NumSlots)
      ELSE backup_gks \o field_players

\* a teamsheet whose lineup ids are written one index too early
SheetIdsShifted(ids, additional_players) ==
  [ i \in 1..SheetSlots |->
      IF i < Len(ids) THEN ids[i + 1]
      ELSE IF i - NumSlots \in 1..Len(additional_players)
           THEN additional_players[i - NumSlots].playerid
           ELSE -1 ]

\* player_id_dict of append_to_teamsheets_file as playerid0..playerid51
SheetIds(ids, additional_players) ==
  [ i \in 1..SheetSlots |->
      IF i <= Len(ids) THEN ids[i]
      ELSE IF i - NumSlots \in 1..Len(additional_players)
           THEN additional_players[i - NumSlots].playerid
           ELSE -1 ]

\* ------------------------------------------------------------ the inputs
PoolSizes ==
  { n \in 9..MaxPool : n <= 12 \/ n % 3 = 0 \/ n >= MaxPool - 1 }

\* the player files: size n, seeds a and b, dup = an id occurs twice
Seeds ==
  { sd \in [ n : PoolSizes, a : 0..MaxSeed, b : 0..MaxSeed, dup : BOOLEAN ] :
      sd.dup => (sd.a = 0 /\ sd.b <= 1) }

PlayerFile(sd) == [ i \in 1..sd.n |-> FileRow(i, sd.a, sd.b, sd.dup) ]

\* the file of the next team of a batch
NextSeed(sd) == [ sd EXCEPT !.a = (sd.a + 1) % (MaxSeed + 1) ]

FileNames ==
  { "teams.txt", "default_mentalities.txt", "default_teamsheets.txt",
    "formations.txt", "leagueteamlinks.txt", "manager.txt", "teamkits.txt",
    "teamplayerlinks.txt", "teamnationlinks.txt", "teamstadiumlinks.txt" }

\* The tables before the first run: a header and two rows of other teams; in
\* teamplayerlinks.txt the second row links player 101 to the free-agent team.
OldRows(name) ==
  << DataRow(5, 50, 102, 5, << >>, -1),
     DataRow(9, IF name = "teamplayerlinks.txt" THEN FreeAgentTeam ELSE 51,
             101, 28, << >>, -1) >>
  \o (IF name = "teamplayerlinks.txt"
      THEN << DataRow(7, FreeAgentTeam, 99, 29, << >>, -1) >>
      ELSE << >>)

InitialText(name, shape, named) ==
  LET h == << HeaderLine(named) >>
      r == OldRows(name)
  IN  CASE shape = "newline"    -> h \o << NL >> \o JoinLines(r) \o << NL >>
        [] shape = "nonewline"  -> h \o << NL >> \o JoinLines(r)
        [] shape = "blankline"  -> h \o << NL >> \o JoinLines(r) \o << NL, NL >>
        [] shape = "headeronly" -> h
        [] shape = "nodigits"   ->
             h \o << NL, [ r[1] EXCEPT !.key = -1 ], NL >>
        [] OTHER                -> << >>

Setups ==
  { [shape |-> "newline",    named |-> TRUE,  missing |-> {}, stadium |-> -1],
    [shape |-> "nonewline",  named |-> TRUE,  missing |-> {}, stadium |-> 7],
    [shape |-> "blankline",  named |-> TRUE,  missing |-> {}, stadium |-> -1],
    [shape |-> "headeronly", named |-> TRUE,  missing |-> {}, stadium |-> -1],
    [shape |-> "nodigits",   named |-> TRUE,  missing |-> {}, stadium |-> -1],
    [shape |-> "empty",      named |-> TRUE,  missing |-> {}, stadium |-> -1],
    [shape |-> "newline",    named |-> FALSE, missing |-> {}, stadium |-> -1],
    [shape |-> "nonewline",  named |-> TRUE,
     missing |-> { "default_teamsheets.txt" }, stadium |-> -1],
    [shape |-> "newline",    named |-> TRUE,
     missing |-> { "teamplayerlinks.txt" }, stadium |-> 7],
    [shape |-> "newline",    named |-> TRUE,
     missing |-> FileNames, stadium |-> 7] }

FirstTeamId == 900
NationId == 14

\* ------------------------------------------------------------------- state
VARIABLES
  run,              \* number of the team-creation run
  pc,               \* "load", "pass1".."pass3", the file being written,
                    \* "summary", "done", "failed"
  seed,             \* the player file of this run
  files,            \* text of every table
  present,          \* the tables that exist (os.path.exists)
  team_id, is_national_team, stadium_id,
  goalkeepers, players, starting_eleven, captain_id, player_ids,
  limited_squad,    \* << >> while the attribute is not set
  success_count, error_count,
  created           \* what process_files returned for each finished run

VARIABLES
  file_bytes,       \* the bytes of the file whose encoding is detected
  encoding          \* what detect_file_encoding returned, "none" before

VARIABLES
  selected_formation  \* the formation handed to process_files, or "none"

VARIABLES
  sequential,       \* the runs on a shared table follow one another
  league_runs       \* per run on a shared league table: where it is, the key
                    \* it computed and the text it read

VARIABLES
  writer_order      \* "process_files", or "links_first" when the caller runs
                    \* the lineup-link writer ahead of the teamsheet writer

detection == << file_bytes, encoding >>

\* the variables no step of a team-creation run changes
outside ==
  << file_bytes, encoding, selected_formation, writer_order, sequential,
     league_runs >>

vars == << run, pc, seed, files, present, team_id, is_national_team, stadium_id,
           goalkeepers, players, starting_eleven, captain_id, player_ids,
           limited_squad, success_count, error_count, created,
           file_bytes, encoding, selected_formation, writer_order, sequential,
           league_runs >>

appender == << team_id, is_national_team, stadium_id, goalkeepers, players,
               starting_eleven, captain_id, player_ids, limited_squad >>

squad == << goalkeepers, players, starting_eleven, captain_id, player_ids >>

\* the state after the first TeamAppender of a batch is constructed, for a
\* player file, a directory of tables, a formation and an order of the writers
\* drawn from the given sets
Start(seeds, setups, formations, orders) ==
  /\ run = 1
  /\ pc = "load"
  /\ seed \in seeds
  /\ is_national_team \in BOOLEAN
  /\ \E st \in setups :
       /\ files = [ name \in FileNames |-> InitialText(name, st.shape, st.named) ]
       /\ present = FileNames \ st.missing
       /\ stadium_id = st.stadium
  /\ team_id = FirstTeamId
  /\ goalkeepers = << >>
  /\ players = << >>
  /\ starting_eleven = << >>
  /\ captain_id = -1
  /\ player_ids = << >>
  /\ limited_squad = << >>
  /\ success_count = 0
  /\ error_count = 0
  /\ created = << >>
  /\ file_bytes = << >>
  /\ encoding = "none"
  /\ selected_formation \in formations
  /\ writer_order \in orders
  /\ sequential = TRUE
  /\ league_runs = << >>

Init == Start(Seeds, Setups, { "none" }, { "process_files" })

\* ------------------------------------------------------ load_player_data
\* The rows are split into goalkeepers and field players; without a field
\* player the load fails.
\* ------------------------------------------------ load_national_team_players
\* a nation other than the requested one
ForeignNation == 18

\* load_blacklisted_players(): three ids of the hardcoded list
Blacklist == { 27, 51, 240 }

\* the game's position code of a standard position, as players.txt holds it
GameCode(pos1) ==
  CASE pos1 = "GK" -> 0 [] pos1 = "SW" -> 1 [] pos1 = "RWB" -> 2
    [] pos1 = "RB" -> 3 [] pos1 = "RCB" -> 4 [] pos1 = "CB" -> 5
    [] pos1 = "LB" -> 7 [] pos1 = "LWB" -> 8 [] pos1 = "CDM" -> 10
    [] pos1 = "RM" -> 12 [] pos1 = "CM" -> 14 [] pos1 = "LM" -> 16
    [] pos1 = "CAM" -> 18 [] pos1 = "CF" -> 21 [] pos1 = "RW" -> 23
    [] pos1 = "ST" -> 25 [] pos1 = "LW" -> 27 [] OTHER -> 14

\* position_map.get(game_position, "CM")
map_game_position_to_standard(game_position) ==
  CASE game_position = 0 -> "GK" [] game_position = 1 -> "SW"
    [] game_position = 3 -> "RB" [] game_position = 4 -> "RCB"
    [] game_position = 5 -> "CB" [] game_position = 6 -> "LCB"
    [] game_position = 7 -> "LB" [] game_position = 9 -> "RDM"
    [] game_position = 10 -> "CDM" [] game_position = 11 -> "LDM"
    [] game_position = 12 -> "RM" [] game_position = 13 -> "RCM"
    [] game_position = 14 -> "CM" [] game_position = 15 -> "LCM"
    [] game_position = 16 -> "LM" [] game_position = 17 -> "RAM"
    [] game_position = 18 -> "CAM" [] game_position = 19 -> "LAM"
    [] game_position = 20 -> "RF" [] game_position = 22 -> "LF"
    [] game_position = 23 -> "RW" [] game_position = 24 -> "RS"
    [] game_position = 25 -> "ST" [] game_position = 26 -> "LS"
    [] game_position = 27 -> "LW" [] OTHER -> "CM"

\* a row of players.txt
MasterRow(playerid, overallrating, preferredposition1, nationality, gender) ==
  [ playerid |-> playerid, overallrating |-> overallrating,
    preferredposition1 |-> preferredposition1,
    nationality |-> nationality, gender |-> gender ]

\* players.txt: a foreign goalkeeper, the men of the requested nation drawn
\* from the seeds with a woman of that nation after the third of them, and a
\* blacklisted man of that nation; the three are rated above everyone else
MasterFile(sd) ==
  LET f == PlayerFile(sd)
      men == [ i \in 1..Len(f) |->
                 MasterRow(f[i].playerid, f[i].ovr, GameCode(f[i].pos1),
                           NationId, 0) ]
  IN  << MasterRow(201, 99, 0, ForeignNation, 0) >>
      \o Take(men, 3)
      \o << MasterRow(202, 98, 25, NationId, 1) >>
      \o Drop(men, 3)
      \o << MasterRow(240, 97, 5, NationId, 0) >>

\* the dict built for a row that passes the filters
player_data(row) ==
  [ playerid |-> row.playerid, ovr |-> row.overallrating,
    pos1 |-> map_game_position_to_standard(row.preferredposition1) ]

\* mutant candidate: the blacklist is not consulted
LoadIgnoringBlacklist(file, nation_id) ==
  LET kept == Keep(file, { i \in DOMAIN file :
                             /\ file[i].nationality = nation_id
                             /\ file[i].gender = 0 }, 1)
  IN  [ i \in 1..Len(kept) |-> player_data(kept[i]) ]

\* the rows of players.txt that load_national_team_players keeps, in file
\* order: not blacklisted, of the requested nation, gender 0
load_national_team_players(file, nation_id) ==
  LET kept == Keep(file, { i \in DOMAIN file :
                             /\ file[i].playerid \notin Blacklist
                             /\ file[i].nationality = nation_id
                             /\ file[i].gender = 0 }, 1)
  IN  [ i \in 1..Len(kept) |-> player_data(kept[i]) ]

\* the player dicts load_player_data reads for a team
LoadedRows(sd, national) ==
  IF national THEN load_national_team_players(MasterFile(sd), NationId)
  ELSE PlayerFile(sd)

LoadPlayerData ==
  /\ pc = "load"
  /\ \E f \in { LoadedRows(seed, is_national_team) } :
       /\ goalkeepers' = Keep(f, { i \in DOMAIN f : f[i].pos1 = "GK" }, 1)
       /\ players' = Keep(f, { i \in DOMAIN f : f[i].pos1 # "GK" }, 1)
  /\ starting_eleven' = [ k \in 1..NumSlots |-> NoPlayer ]
  /\ pc' = IF players' = << >> THEN "failed" ELSE "pass1"
  /\ UNCHANGED << run, seed, files, present, team_id, is_national_team,
                  stadium_id, captain_id, player_ids, limited_squad,
                  success_count, error_count, created >>
  /\ UNCHANGED outside

\* create_balanced_squad, PASS 1
BestFitPass ==
  /\ pc = "pass1"
  /\ \E all_gks \in { SortOvrDesc(goalkeepers) },
        all_field \in { SortOvrDesc(players) } :
       starting_eleven' = Pass1(1, starting_eleven, all_gks, all_field)
  /\ pc' = "pass2"
  /\ UNCHANGED << run, seed, files, present, team_id, is_national_team,
                  stadium_id, goalkeepers, players, captain_id, player_ids,
                  limited_squad, success_count, error_count, created >>
  /\ UNCHANGED outside

\* create_balanced_squad, PASS 2
FallbackPass ==
  /\ pc = "pass2"
  /\ \E all_field \in { SortOvrDesc(players) } :
       starting_eleven' = Pass2(1, starting_eleven, all_field)
  /\ pc' = "pass3"
  /\ UNCHANGED << run, seed, files, present, team_id, is_national_team,
                  stadium_id, goalkeepers, players, captain_id, player_ids,
                  limited_squad, success_count, error_count, created >>
  /\ UNCHANGED outside

\* file_processes of process_files; a caller of the writer methods may
\* instead run the lineup-link writer ahead of the teamsheet writer
file_processes ==
  (IF writer_order = "links_first"
   THEN << "teams.txt", "default_mentalities.txt", "teamplayerlinks.txt",
           "default_teamsheets.txt", "formations.txt", "leagueteamlinks.txt",
           "manager.txt", "teamkits.txt" >>
   ELSE << "teams.txt", "default_mentalities.txt", "default_teamsheets.txt",
           "formations.txt", "leagueteamlinks.txt", "manager.txt",
           "teamkits.txt", "teamplayerlinks.txt" >>)
  \o (IF is_national_team THEN << "teamnationlinks.txt" >> ELSE << >>)
  \o (IF stadium_id # -1 THEN << "teamstadiumlinks.txt" >> ELSE << >>)

\* a sequence that stops at the first failure
AfterUntilFailure(name) ==
  LET k == CHOOSE i \in DOMAIN file_processes : file_processes[i] = name
  IN  IF k < Len(file_processes) /\ error_count = 0
      THEN file_processes[k + 1] ELSE "summary"

\* the file processed after name
After(name) ==
  LET k == CHOOSE i \in DOMAIN file_processes : file_processes[i] = name
  IN  IF k < Len(file_processes) THEN file_processes[k + 1] ELSE "summary"

\* create_balanced_squad, PASS 3 and the captain; load_player_data then
\* freezes player_ids, which raises (and fails the load) on an empty slot.
\* mutant candidate: a lineup with an empty slot passes
LoadNeverFails(eleven) == FALSE

\* get_starting_player_ids raises on an empty slot and the load returns False
LoadFails(eleven) == NoPlayer \in Range(eleven)

LastResortPass ==
  /\ pc = "pass3"
  /\ \E all_gks \in { SortOvrDesc(goalkeepers) },
        all_field \in { SortOvrDesc(players) } :
     \E eleven \in { Pass3(1, starting_eleven, all_gks, all_field) } :
       /\ starting_eleven' = eleven
       /\ captain_id' = Captain(eleven)
       /\ IF LoadFails(eleven)
          THEN pc' = "failed" /\ player_ids' = player_ids
          ELSE pc' = file_processes[1] /\ player_ids' = IdSeq(eleven)
  /\ UNCHANGED << run, seed, files, present, team_id, is_national_team,
                  stadium_id, goalkeepers, players, limited_squad,
                  success_count, error_count, created >>
  /\ UNCHANGED outside

\* --------------------------------------------------------------- the writers
ClubLeague == 13

league_id == IF is_national_team THEN NationalLeague ELSE ClubLeague

\* mutant candidate: every writer is counted as a success
CountedAsSuccess(success) ==
  /\ success_count' = success_count + 1
  /\ error_count' = error_count

\* success_count / error_count of process_files
Counted(success) ==
  /\ success_count' = IF success THEN success_count + 1 ELSE success_count
  /\ error_count' = IF success THEN error_count ELSE error_count + 1

\* A writer that only appends: the os.path.exists guard, the whole-file
\* rewrite, and the step of process_files to the next file.
WriteRows(name, rows) ==
  /\ pc = name
  /\ IF name \in present
     THEN /\ files' = [ files EXCEPT ![name] = AppendText(@, rows) ]
          /\ Counted(TRUE)
     ELSE /\ files' = files
          /\ Counted(FALSE)
  /\ pc' = After(name)
  /\ UNCHANGED << run, seed, present, created >>
  /\ UNCHANGED outside

\* the new id of a file whose key column is looked up by name
NextId(content, default_value) ==
  IF HeaderNamesKey(content)
  THEN get_highest_id_from_file(content, default_value) + 1
  ELSE default_value + 1

append_to_teams_file ==
  /\ WriteRows("teams.txt",
               << DataRow(-1, team_id, captain_id, -1, << >>, -1) >>)
  /\ UNCHANGED appender

MentalityRows(next_mentality_id, team, ids) ==
  << [ DataRow(next_mentality_id, team, -1, -1, ids, -1)
         EXCEPT !.positions = formation_positions(selected_formation) ],
     DataRow(next_mentality_id + 1, -1, -1, -1, [ k \in 1..NumSlots |-> -1 ], -1),
     DataRow(next_mentality_id + 2, -1, -1, -1, [ k \in 1..NumSlots |-> -1 ], -1) >>

append_to_mentalities_file ==
  /\ WriteRows("default_mentalities.txt",
               MentalityRows(NextId(files["default_mentalities.txt"],
                                    MentalityIdDefault),
                             team_id, player_ids))
  /\ UNCHANGED appender

\* With limited_squad set, a national team's teamsheet fails on the unbound
\* name additional_players and nothing is written.
append_to_teamsheets_file ==
  /\ pc = "default_teamsheets.txt"
  /\ IF /\ "default_teamsheets.txt" \in present
        /\ ~(limited_squad # << >> /\ is_national_team)
     THEN \E additional_players \in
             { SheetBench(goalkeepers, players, starting_eleven,
                          is_national_team) } :
            /\ files' = [ files EXCEPT !["default_teamsheets.txt"] =
                 AppendText(@, << DataRow(-1, team_id, captain_id, -1,
                                    SheetIds(player_ids, additional_players),
                                    -1) >>) ]
            /\ Counted(TRUE)
     ELSE /\ files' = files
          /\ Counted(FALSE)
  /\ pc' = After("default_teamsheets.txt")
  /\ UNCHANGED << run, seed, present, created >>
  /\ UNCHANGED appender
  /\ UNCHANGED outside

append_to_formations_file ==
  /\ WriteRows("formations.txt",
               << [ DataRow(NextId(files["formations.txt"], FormationIdDefault),
                            team_id, -1, -1, << >>, -1)
                      EXCEPT !.positions = formation_positions(selected_formation) ] >>)
  /\ UNCHANGED appender

append_to_leagueteamlinks_file ==
  /\ WriteRows("leagueteamlinks.txt",
               << DataRow(NextId(files["leagueteamlinks.txt"], LeagueKeyDefault),
                          team_id, -1, -1, << >>, league_id) >>)
  /\ UNCHANGED appender

append_to_manager_file ==
  /\ WriteRows("manager.txt",
               << DataRow(NextId(files["manager.txt"], ManagerIdDefault),
                          team_id, -1, -1, << >>, -1) >>)
  /\ UNCHANGED appender

KitRows(kit_id, team) ==
  [ k \in 1..3 |-> DataRow(kit_id + (k - 1), team, -1, -1, << >>, k - 1) ]

append_to_teamkits_file ==
  /\ WriteRows("teamkits.txt", KitRows(next_kit_id(files["teamkits.txt"]), team_id))
  /\ UNCHANGED appender

\* The key is read first; a club team's links to team 111592 are removed and
\* the file rewritten; the roster is built, capped for a national team and
\* kept in limited_squad; its rows are appended.
append_to_teamplayerlinks_file ==
  /\ pc = "teamplayerlinks.txt"
  /\ IF "teamplayerlinks.txt" \in present
     THEN \E next_key \in { get_highest_id_from_file(
                              files["teamplayerlinks.txt"], LinkKeyDefault) + 1 },
             relinked \in { IF is_national_team
                            THEN files["teamplayerlinks.txt"]
                            ELSE RemoveFreeAgentLinks(files["teamplayerlinks.txt"],
                                   UsedIds(starting_eleven)
                                     \cup Ids(goalkeepers \o players)) },
             all_players \in { LinkRoster(goalkeepers, players, starting_eleven,
                                          is_national_team) } :
            /\ limited_squad' = IF is_national_team THEN all_players
                                ELSE limited_squad
            /\ IF NoPlayer \in Range(all_players)
               THEN /\ files' = [ files EXCEPT !["teamplayerlinks.txt"] = relinked ]
                    /\ Counted(FALSE)
               ELSE /\ files' = [ files EXCEPT !["teamplayerlinks.txt"] =
                         AppendText(relinked,
                           LinkRows(all_players,
                                    LinkPositionIds(goalkeepers, players,
                                      starting_eleven, is_national_team),
                                    next_key, team_id)) ]
                    /\ Counted(TRUE)
     ELSE /\ files' = files
          /\ limited_squad' = limited_squad
          /\ Counted(FALSE)
  /\ pc' = After("teamplayerlinks.txt")
  /\ UNCHANGED << run, seed, present, created, team_id, is_national_team,
                  stadium_id, squad >>
  /\ UNCHANGED outside

append_to_team_nationlinks_file ==
  /\ WriteRows("teamnationlinks.txt",
               << DataRow(-1, team_id, -1, -1, << >>, NationId) >>)
  /\ UNCHANGED appender

append_to_teamstadiumlinks_file ==
  /\ WriteRows("teamstadiumlinks.txt",
               << DataRow(-1, team_id, -1, -1, << >>, stadium_id) >>)
  /\ UNCHANGED appender

\* return success_count > 0
\* mutant candidate: successful only when no writer failed
NoneFailed(successes, errors) == errors = 0

\* return success_count > 0
AnySucceeded(successes, errors) == successes > 0

ProcessFilesReturn ==
  /\ pc = "summary"
  /\ created' = Append(created, AnySucceeded(success_count, error_count))
  /\ pc' = "done"
  /\ UNCHANGED << run, seed, files, present, success_count, error_count >>
  /\ UNCHANGED appender
  /\ UNCHANGED outside

\* process_multiple_teams: a new TeamAppender for the next file; the team id
\* advances only after process_files ran.
NextTeam ==
  /\ pc \in { "done", "failed" }
  /\ run < MaxRuns
  /\ run' = run + 1
  /\ seed' = NextSeed(seed)
  /\ team_id' = IF pc = "done" THEN team_id + 1 ELSE team_id
  /\ goalkeepers' = << >>
  /\ players' = << >>
  /\ starting_eleven' = << >>
  /\ captain_id' = -1
  /\ player_ids' = << >>
  /\ limited_squad' = << >>
  /\ success_count' = 0
  /\ error_count' = 0
  /\ pc' = "load"
  /\ UNCHANGED << files, present, is_national_team, stadium_id, created >>
  /\ UNCHANGED outside

Writers ==
  \/ append_to_teams_file
  \/ append_to_mentalities_file
  \/ append_to_teamsheets_file
  \/ append_to_formations_file
  \/ append_to_leagueteamlinks_file
  \/ append_to_manager_file
  \/ append_to_teamkits_file
  \/ append_to_teamplayerlinks_file
  \/ append_to_team_nationlinks_file
  \/ append_to_teamstadiumlinks_file

Next ==
  \/ LoadPlayerData
  \/ BestFitPass
  \/ FallbackPass
  \/ LastResortPass
  \/ Writers
  \/ ProcessFilesReturn
  \/ NextTeam

Spec == Init /\ [][Next]_vars

\* ------------------------------------------------ runs with a chosen formation
\* player files of 9, 21 and MaxPool rows
FormationSeeds ==
  { sd \in Seeds : sd.n \in { 9, 21, MaxPool } /\ sd.b = 0 /\ ~sd.dup }

\* directories with all tables, with and without a stadium
FormationSetups ==
  { st \in Setups :
      st.shape \in { "newline", "nonewline" } /\ st.named /\ st.missing = {} }

FormationInit ==
  Start(FormationSeeds, FormationSetups, SelectableFormations,
        { "process_files" })

FormationSpec == FormationInit /\ [][Next]_vars

\* ------------------------------------------------ runs in either writer order
OrderInit ==
  Start(FormationSeeds, FormationSetups, { "none" },
        { "process_files", "links_first" })

OrderSpec == OrderInit /\ [][Next]_vars

\* ------------------------------- team-creation runs on a shared league table
\* Runs of append_to_leagueteamlinks_file in separate processes on one
\* directory: each looks up the next key, reads the whole table and writes the
\* whole table back; nothing keeps the steps of two runs apart.
Procs == 1..MaxProcs

SharedTable == "leagueteamlinks.txt"

TeamOf(p) == FirstTeamId + (p - 1)

ConcInit ==
  /\ run = 0
  /\ pc = "concurrent"
  /\ seed = [n |-> 0, a |-> 0, b |-> 0, dup |-> FALSE]
  /\ is_national_team \in BOOLEAN
  /\ \E st \in { s \in Setups : s.missing = {} } :
       /\ files = [ name \in FileNames |-> InitialText(name, st.shape, st.named) ]
       /\ present = FileNames
       /\ stadium_id = st.stadium
  /\ team_id = FirstTeamId
  /\ goalkeepers = << >>
  /\ players = << >>
  /\ starting_eleven = << >>
  /\ captain_id = -1
  /\ player_ids = << >>
  /\ limited_squad = << >>
  /\ success_count = 0
  /\ error_count = 0
  /\ created = << >>
  /\ file_bytes = << >>
  /\ encoding = "none"
  /\ selected_formation = "none"
  /\ writer_order = "process_files"
  /\ sequential \in BOOLEAN
  /\ league_runs = [ p \in Procs |-> [ at |-> "start", next_key |-> 0,
                                       content |-> << >> ] ]

\* what no step of a run on the shared table changes
RunsLeave ==
  /\ UNCHANGED << run, pc, seed, present, success_count, error_count, created,
                  file_bytes, encoding, selected_formation, writer_order,
                  sequential >>
  /\ UNCHANGED appender

\* get_highest_id_from_file(...) + 1; a run that follows the others starts
\* only when none of them is between its first read and its write
ReadKey(p) ==
  /\ pc = "concurrent"
  /\ league_runs[p].at = "start"
  /\ sequential
     => \A q \in Procs \ { p } : league_runs[q].at \in { "start", "done" }
  /\ league_runs' = [ league_runs EXCEPT
       ![p].at = "read",
       ![p].next_key = NextId(files[SharedTable], LeagueKeyDefault) ]
  /\ files' = files
  /\ RunsLeave

\* content = file.read()
ReadContent(p) ==
  /\ pc = "concurrent"
  /\ league_runs[p].at = "read"
  /\ league_runs' = [ league_runs EXCEPT ![p].at = "write",
                                         ![p].content = files[SharedTable] ]
  /\ files' = files
  /\ RunsLeave

\* file.write(content + leagueteamlinks_template)
WriteBack(p) ==
  /\ pc = "concurrent"
  /\ league_runs[p].at = "write"
  /\ files' = [ files EXCEPT ![SharedTable] =
       AppendText(league_runs[p].content,
                  << DataRow(league_runs[p].next_key, TeamOf(p), -1, -1,
                             << >>, league_id) >>) ]
  /\ league_runs' = [ league_runs EXCEPT ![p].at = "done" ]
  /\ RunsLeave

ConcNext ==
  \/ \E p \in Procs : ReadKey(p)
  \/ \E p \in Procs : ReadContent(p)
  \/ \E p \in Procs : WriteBack(p)

ConcSpec == ConcInit /\ [][ConcNext]_vars

\* ------------------------------------------------- the encoding detection
DetectInit ==
  /\ \E len \in 0..MaxFileLen, front, bom \in BOOLEAN :
       \E zeros \in 0..len :
         file_bytes = FileBytes(len, zeros, front, bom)
  /\ encoding = "none"
  /\ run = 0
  /\ pc = "detect"
  /\ seed = [n |-> 0, a |-> 0, b |-> 0, dup |-> FALSE]
  /\ files = [ name \in FileNames |-> << >> ]
  /\ present = {}
  /\ team_id = FirstTeamId
  /\ is_national_team = FALSE
  /\ stadium_id = -1
  /\ goalkeepers = << >>
  /\ players = << >>
  /\ starting_eleven = << >>
  /\ captain_id = -1
  /\ player_ids = << >>
  /\ limited_squad = << >>
  /\ success_count = 0
  /\ error_count = 0
  /\ created = << >>
  /\ selected_formation = "none"
  /\ writer_order = "process_files"
  /\ sequential = TRUE
  /\ league_runs = << >>

DetectFileEncoding ==
  /\ pc = "detect"
  /\ encoding = "none"
  /\ encoding' = detect_file_encoding(file_bytes)
  /\ UNCHANGED << run, pc, seed, files, present, success_count, error_count,
                  created, file_bytes, selected_formation, writer_order,
                  sequential, league_runs >>
  /\ UNCHANGED appender

DetectNext == DetectFileEncoding

DetectSpec == DetectInit /\ [][DetectNext]_vars

\* =============================================================== properties
\* the rows of a table that carry a team's id, in file order
TeamRows(name, team) ==
  Keep(files[name], { i \in DOMAIN files[name] :
                        /\ files[name][i].kind = "row"
                        /\ files[name][i].teamid = team }, 1)

UniqueIds(pool) ==
  \A i, j \in DOMAIN pool : i # j => pool[i].playerid # pool[j].playerid

\* create_balanced_squad has returned for the pool of this run
Assembled ==
  pc \notin { "load", "pass1", "pass2", "pass3" } /\ players # << >>

WriterNames == Range(file_processes)

\* the file being written, or a later point of the same run
InProcessFiles == pc \in WriterNames \cup { "summary", "done" }

\* ----------------------------------------------------------------------- C1
\* C1: for a pool with unique player ids, at least 1 goalkeeper and at least
\* 10 field players, the three passes bind all 11 formation slots, the 11
\* bound ids are pairwise distinct, and slot 0 holds a player whose pos1 is GK.
C1_LineupComplete ==
  ( /\ Assembled
    /\ UniqueIds(goalkeepers \o players)
    /\ Len(goalkeepers) >= 1
    /\ Len(players) >= 10 )
  => /\ \A k \in 1..NumSlots : starting_eleven[k] # NoPlayer
     /\ \A j, k \in 1..NumSlots :
          j # k => starting_eleven[j].playerid # starting_eleven[k].playerid
     /\ starting_eleven[1].pos1 = "GK"

\* a pool of exactly 10 field players and a goalkeeper, assembled, of which
\* the last-resort pass had to bind a slot
C1_Witness ==
  /\ pc = "teams.txt"
  /\ UniqueIds(goalkeepers \o players)
  /\ Len(goalkeepers) >= 1
  /\ Len(players) = 10
  /\ NoPlayer \in Range(Pass2(1, Pass1(1, [ k \in 1..NumSlots |-> NoPlayer ],
                                       SortOvrDesc(goalkeepers),
                                       SortOvrDesc(players)),
                              SortOvrDesc(players)))

\* ----------------------------------------------------------------------- C2
\* zero-based rank of a position in a slot's acceptable list
PriorityIndex(pos, acceptable) ==
  (CHOOSE p \in DOMAIN acceptable : acceptable[p] = pos) - 1

\* the field players that are unused when the best-fit pass reaches slot k
\* (no earlier slot holds their id) and whose pos1 the slot accepts
Eligible(k) ==
  { i \in DOMAIN players :
      /\ players[i].pos1 \in Range(formation_slots[k].acceptable)
      /\ \A j \in 1..(k - 1) :
           starting_eleven[j] # NoPlayer
             => starting_eleven[j].playerid # players[i].playerid }

RatingMinusPenalty(p, k) ==
  p.ovr - 3 * PriorityIndex(p.pos1, formation_slots[k].acceptable)

Player(id, ovr, pos1) == [playerid |-> id, ovr |-> ovr, pos1 |-> pos1]

\* C2: right after the best-fit pass every non-goalkeeper slot, in formation
\* order, holds an unused eligible field player of maximal
\* rating - 3 * priorityIndex (and is empty when no field player is eligible);
\* for [RB, RWB, CB] an RB rated 80 beats an RWB rated 81 and loses to an RWB
\* rated 84, and for [ST, CF, RW, LW] without an ST a CF rated 85 beats an RW
\* rated 83.
C2_BestFitMaximisesScore ==
  /\ pc = "pass2" =>
       \A k \in 2..NumSlots :
         IF Eligible(k) = {} THEN starting_eleven[k] = NoPlayer
         ELSE /\ \E i \in Eligible(k) : players[i] = starting_eleven[k]
              /\ \A i \in Eligible(k) :
                   RatingMinusPenalty(players[i], k)
                     <= RatingMinusPenalty(starting_eleven[k], k)
  /\ BestCandidate(<< "RB", "RWB", "CB" >>,
                   SortOvrDesc(<< Player(1, 80, "RB"), Player(2, 81, "RWB") >>),
                   {}) = Player(1, 80, "RB")
  /\ BestCandidate(<< "RB", "RWB", "CB" >>,
                   SortOvrDesc(<< Player(1, 80, "RB"), Player(2, 84, "RWB") >>),
                   {}) = Player(2, 84, "RWB")
  /\ BestCandidate(<< "ST", "CF", "RW", "LW" >>,
                   SortOvrDesc(<< Player(1, 83, "RW"), Player(2, 85, "CF") >>),
                   {}) = Player(2, 85, "CF")

\* after the best-fit pass one slot holds a natural player although a
\* higher-rated eligible player of a later position was unused, and another
\* slot holds a player of a later position although a natural one was unused
C2_Witness ==
  /\ pc = "pass2"
  /\ \E k \in 2..NumSlots :
       /\ starting_eleven[k] # NoPlayer
       /\ PriorityIndex(starting_eleven[k].pos1, formation_slots[k].acceptable) = 0
       /\ \E i \in Eligible(k) : players[i].ovr > starting_eleven[k].ovr
  /\ \E k \in 2..NumSlots :
       /\ starting_eleven[k] # NoPlayer
       /\ PriorityIndex(starting_eleven[k].pos1, formation_slots[k].acceptable) > 0
       /\ \E i \in Eligible(k) :
            players[i].pos1 = formation_slots[k].acceptable[1]

\* ----------------------------------------------------------------------- C3
\* the slots of the lineup that hold an outfield player
OutfieldSlots ==
  { k \in DOMAIN starting_eleven :
      starting_eleven[k] # NoPlayer /\ starting_eleven[k].pos1 # "GK" }

\* the outfield slots whose player has the largest rating of the lineup
TopRatedSlots ==
  { k \in OutfieldSlots :
      \A j \in OutfieldSlots : starting_eleven[j].ovr <= starting_eleven[k].ovr }

\* index of a lineup player in the rating-descending (then insertion-order) pool
PoolRank(p) ==
  LET all_field == SortOvrDesc(players)
  IN  CHOOSE i \in DOMAIN all_field :
        all_field[i] = p /\ \A j \in 1..(i - 1) : all_field[j] # p

\* C3 as claimed: the captain is a top-rated outfield player of the lineup,
\* and among several of them the one that comes first in the pool order.
C3_CaptainFirstInPoolOrder ==
  (Assembled /\ OutfieldSlots # {})
  => \E k \in TopRatedSlots :
       /\ captain_id = starting_eleven[k].playerid
       /\ \A j \in TopRatedSlots :
            PoolRank(starting_eleven[k]) <= PoolRank(starting_eleven[j])

\* C3 (amended): the captain is a top-rated outfield player of the lineup,
\* and among several of them the one in the lowest-numbered formation slot.
C3_CaptainFirstInSlotOrder ==
  (Assembled /\ OutfieldSlots # {})
  => \E k \in TopRatedSlots :
       /\ captain_id = starting_eleven[k].playerid
       /\ \A j \in TopRatedSlots : k <= j

\* two top-rated outfield players of a full lineup, the one in the lower slot
\* later in the pool order, and the captain is the one in the lower slot
C3_Witness ==
  /\ InProcessFiles
  /\ UniqueIds(goalkeepers \o players)
  /\ \E k, j \in TopRatedSlots :
       /\ k < j
       /\ PoolRank(starting_eleven[j]) < PoolRank(starting_eleven[k])
       /\ \A i \in TopRatedSlots : k <= i
       /\ captain_id = starting_eleven[k].playerid

\* ----------------------------------------------------------------------- C4
\* C4: for a pool with unique ids the roster the lineup-link writer writes
\* (club or national, trimmed or not) has no player id at two indices, a real
\* player of the pool at every index, the lineup in slot order at indices
\* 0-10 and only players outside the lineup at indices >= 11.
C4_RosterBijection ==
  LET rows == TeamRows("teamplayerlinks.txt", team_id)
  IN  (InProcessFiles /\ rows # << >> /\ UniqueIds(goalkeepers \o players))
      => /\ \A i, j \in DOMAIN rows :
              i # j => rows[i].playerid # rows[j].playerid
         /\ \A i \in DOMAIN rows : rows[i].playerid \in Ids(goalkeepers \o players)
         /\ Len(rows) >= NumSlots
         /\ \A i \in 1..NumSlots : rows[i].playerid = starting_eleven[i].playerid
         /\ \A i \in (NumSlots + 1)..Len(rows) :
              rows[i].playerid \notin Ids(starting_eleven)

\* a club's untrimmed roster of more than 26 players with unique ids, written
C4_Witness ==
  /\ InProcessFiles
  /\ ~is_national_team
  /\ UniqueIds(goalkeepers \o players)
  /\ Len(TeamRows("teamplayerlinks.txt", team_id)) > 26
  /\ Len(TeamRows("teamplayerlinks.txt", team_id))
       = Len(goalkeepers) + Len(players)

\* ----------------------------------------------------------------------- C5
\* C5: the roster written to the lineup-link table for a national team has
\* at most 26 entries for every pool, and its entries 0-10 are the lineup in
\* slot order, trimmed or not.
C5_NationalCap ==
  LET rows == TeamRows("teamplayerlinks.txt", team_id)
  IN  (InProcessFiles /\ is_national_team /\ rows # << >>)
      => /\ Len(rows) <= 26
         /\ Len(rows) >= NumSlots
         /\ \A i \in 1..NumSlots : rows[i].playerid = starting_eleven[i].playerid

\* a national pool of more than 27 players, written as a roster of 26
C5_Witness ==
  /\ InProcessFiles
  /\ is_national_team
  /\ Len(goalkeepers) + Len(players) > 27
  /\ Len(TeamRows("teamplayerlinks.txt", team_id)) = 26

\* ----------------------------------------------------------------------- C6
\* C6: within a run the id of the player bound to formation slot i is the
\* player id of the i-th lineup-link row, the teamsheet's playerid{i} and the
\* active mentality row's playerid{i}, for i in 0..10, and the frozen id list
\* stays the assembled lineup's while and after the writers run.
C6_SameLineupInEveryTable ==
  InProcessFiles
  => LET links == TeamRows("teamplayerlinks.txt", team_id)
         sheets == TeamRows("default_teamsheets.txt", team_id)
         mentalities == TeamRows("default_mentalities.txt", team_id)
     IN  /\ player_ids = IdSeq(starting_eleven)
         /\ links # << >> =>
              \A i \in 1..NumSlots :
                links[i].playerid = starting_eleven[i].playerid
         /\ \A r \in DOMAIN sheets :
              \A i \in 1..NumSlots :
                sheets[r].pids[i] = starting_eleven[i].playerid
         /\ \A r \in DOMAIN mentalities :
              \A i \in 1..NumSlots :
                mentalities[r].pids[i] = starting_eleven[i].playerid

\* all three tables hold the rows of the team of this run
C6_Witness ==
  /\ pc = "summary"
  /\ TeamRows("teamplayerlinks.txt", team_id) # << >>
  /\ Len(TeamRows("default_teamsheets.txt", team_id)) = 1
  /\ Len(TeamRows("default_mentalities.txt", team_id)) = 1

\* ----------------------------------------------------------------------- C7
\* C7: within a run, for every bench index i >= 11 below the roster length
\* and below 52, the teamsheet's playerid{i} is the player id of the i-th
\* lineup-link row of the same run, for club and national teams.
C7_SheetBenchFollowsLinks ==
  LET links == TeamRows("teamplayerlinks.txt", team_id)
      sheets == TeamRows("default_teamsheets.txt", team_id)
  IN  (InProcessFiles /\ links # << >> /\ sheets # << >>)
      => \A i \in (NumSlots + 1)..Min2(Len(links), SheetSlots) :
           sheets[1].pids[i] = links[i].playerid

\* ----------------------------------------------------------------------- C8
\* a step of a writer leaves the lineup, the frozen id list and the capped
\* roster the appender holds as they were
RosterUnchangedByWriter ==
  pc \in WriterNames
  => /\ starting_eleven' = starting_eleven
     /\ player_ids' = player_ids
     /\ limited_squad' = limited_squad

\* C8: the complete roster ordering (lineup, bench, national cap) is fixed
\* before the first writer runs, and no writer computes or changes any part
\* of it afterwards.
C8_RosterFixedBeforeWriters == [][RosterUnchangedByWriter]_vars

\* ----------------------------------------------------------------------- C9
KeyFiles ==
  { "default_mentalities.txt", "formations.txt", "leagueteamlinks.txt",
    "manager.txt", "teamkits.txt", "teamplayerlinks.txt" }

\* the positions of a table's rows whose key cell is an integer
KeyRows(name) ==
  { i \in DOMAIN files[name] :
      files[name][i].kind = "row" /\ files[name][i].key >= 0 }

\* C9: every key a writer assigns is larger than every key already in the
\* file, so after any sequence of runs the keys of a key column are pairwise
\* distinct (they are distinct in the initial files).
C9_KeysDistinct ==
  \A name \in KeyFiles :
    \A i, j \in KeyRows(name) :
      i # j => files[name][i].key # files[name][j].key

\* ---------------------------------------------------------------------- C10
\* the content without its trailing newlines
RECURSIVE StripNewlines(_)
StripNewlines(content) ==
  IF content # << >> /\ content[Len(content)] = NL
  THEN StripNewlines(SubSeq(content, 1, Len(content) - 1))
  ELSE content

\* rows joined by single newlines, none leading or trailing
IsJoinedRows(t) ==
  /\ Len(t) % 2 = 1
  /\ \A i \in DOMAIN t : IF i % 2 = 1 THEN t[i].kind = "row" ELSE t[i] = NL

\* number of empty lines of a text
BlankLines(content) ==
  Cardinality({ i \in DOMAIN content :
                  content[i] = NL /\ (i = 1 \/ content[i - 1] = NL) })

\* the content a writer appends to: for a club's lineup links, what is left
\* after the rows that link its players to team 111592 are removed
PreviousContent(name) ==
  IF name = "teamplayerlinks.txt" /\ ~is_national_team
  THEN RemoveFreeAgentLinks(files[name], Ids(goalkeepers \o players))
  ELSE files[name]

\* a step appends as claimed: the previous content brought to exactly one
\* trailing newline, then the rows joined by single newlines
AppendsAfterOneNewline ==
  \A name \in FileNames :
    (files'[name] # files[name] /\ StripNewlines(files[name]) # << >>)
    => LET old == StripNewlines(PreviousContent(name)) \o << NL >>
       IN  /\ Take(files'[name], Len(old)) = old
           /\ IsJoinedRows(Drop(files'[name], Len(old)))

\* C10 as claimed: an append rewrites the file as the previous content brought
\* to exactly one trailing newline, followed by the rows joined by single
\* newlines, so no blank line lies between old content and new rows.
C10_ExactlyOneTrailingNewline == [][AppendsAfterOneNewline]_vars

\* a step appends after a newline that is added only when it is missing
AppendsAfterMissingNewline ==
  /\ \A name \in FileNames :
       files'[name] # files[name]
       => LET prev == PreviousContent(name)
              old == IF prev # << >> /\ prev[Len(prev)] # NL
                     THEN prev \o << NL >> ELSE prev
          IN  /\ Take(files'[name], Len(old)) = old
              /\ IsJoinedRows(Drop(files'[name], Len(old)))
              /\ BlankLines(files'[name]) = BlankLines(prev)
  /\ << HeaderLine(TRUE), NL, DataRow(1, 1, 1, 1, << >>, 1), NL,
        DataRow(2, 1, 1, 1, << >>, 1) >>
       = AppendText(<< HeaderLine(TRUE) >>,
                    << DataRow(1, 1, 1, 1, << >>, 1),
                       DataRow(2, 1, 1, 1, << >>, 1) >>)

\* C10 (amended): an append rewrites the file as the previous content, plus
\* one newline only when that content is not empty and does not end with a
\* newline, followed by the rows joined by single newlines; a file without a
\* trailing newline and 2 rows give content + "\n" + row1 + "\n" + row2; no
\* append adds a blank line, and blank lines of the previous content stay.
C10_NewlineOnlyWhenMissing == [][AppendsAfterMissingNewline]_vars

\* the second run has appended its rows to a table whose content ended with
\* a blank line before the first run, and the blank line is still there
C10_Witness ==
  /\ run = 2
  /\ TeamRows("formations.txt", team_id) # << >>
  /\ TeamRows("formations.txt", FirstTeamId) # << >>
  /\ team_id # FirstTeamId
  /\ BlankLines(files["formations.txt"]) = 1

\* ---------------------------------------------------------------------- C11
\* the file starts with the UTF-16-LE byte-order mark
HasBom == Len(file_bytes) >= 2 /\ SubSeq(file_bytes, 1, 2) = << 255, 254 >>

\* number of bytes among the first 100 of the file
SampledBytes == Min2(Len(file_bytes), 100)

\* number of zero bytes among the first 100 bytes of the file
SampledZeros ==
  Cardinality({ i \in 1..SampledBytes : file_bytes[i] = 0 })

\* C11 as claimed: without a byte-order mark the detection returns UTF-16-LE
\* whenever at least 30 of the first 100 bytes are zero, and UTF-8 whenever
\* fewer than 30% of the sampled bytes are zero.
C11_AtLeastThirtyZerosIsUtf16 ==
  (encoding # "none" /\ ~HasBom)
  => /\ (SampledBytes = 100 /\ SampledZeros >= 30) => encoding = "utf-16-le"
     /\ (100 * SampledZeros < 30 * SampledBytes) => encoding = "utf-8"

\* C11 (amended): without a byte-order mark the detection returns UTF-16-LE
\* whenever more than 30 of the first 100 bytes are zero, and UTF-8 whenever
\* at most 30% of the sampled bytes are zero (30 zero bytes of 100 included).
C11_MoreThanThirtyZerosIsUtf16 ==
  (encoding # "none" /\ ~HasBom)
  => /\ (SampledBytes = 100 /\ SampledZeros > 30) => encoding = "utf-16-le"
     /\ (100 * SampledZeros <= 30 * SampledBytes) => encoding = "utf-8"

\* a file of more than 100 bytes without a byte-order mark whose first 100
\* bytes hold exactly 30 zero bytes, detected as UTF-8
C11_Witness ==
  /\ encoding = "utf-8"
  /\ ~HasBom
  /\ Len(file_bytes) > 100
  /\ SampledZeros = 30

\* ---------------------------------------------------------------------- C12
\* the lineup-link writer of this run has run on an existing link table
LinkWriterDone ==
  /\ pc \in { "teamnationlinks.txt", "teamstadiumlinks.txt", "summary", "done" }
  /\ "teamplayerlinks.txt" \in present

\* ids of the roster the link writer appends for the team of this run
RosterIds ==
  Ids(LinkRoster(goalkeepers, players, starting_eleven, is_national_team))

\* lines of the link table that pair the free-agent team with one of the ids
FreeAgentLinks(ids) ==
  { i \in DOMAIN files["teamplayerlinks.txt"] :
      /\ files["teamplayerlinks.txt"][i].kind = "row"
      /\ files["teamplayerlinks.txt"][i].teamid = FreeAgentTeam
      /\ files["teamplayerlinks.txt"][i].playerid \in ids }

\* C12 as claimed: after the link writer completes for any team, no row of the
\* link table pairs team 111592 with a player id of the new team's roster.
C12_NoFreeAgentLinkForAnyTeam ==
  LinkWriterDone => FreeAgentLinks(RosterIds) = {}

\* C12 (amended): after the link writer completes for a club team, no row of
\* the link table pairs team 111592 with a player id of the new team's roster.
C12_NoFreeAgentLinkForClub ==
  (LinkWriterDone /\ ~is_national_team) => FreeAgentLinks(RosterIds) = {}

\* a club whose roster holds player 101, written to a table that linked 101
\* and the foreign player 99 to team 111592: only the link of 99 is left
C12_Witness ==
  /\ LinkWriterDone
  /\ ~is_national_team
  /\ 101 \in RosterIds
  /\ FreeAgentLinks({ 99 }) # {}
  /\ TeamRows("teamplayerlinks.txt", team_id) # << >>

\* ---------------------------------------------------------------------- C13
\* a sequence is the beginning of another
IsPrefix(s, t) == Len(s) <= Len(t) /\ SubSeq(t, 1, Len(s)) = s

\* the lines of a text without their line terminators, blank lines included
RECURSIVE LineContents(_)
LineContents(lines) ==
  IF lines = << >> THEN << >>
  ELSE << Keep(Head(lines), { i \in DOMAIN Head(lines) : Head(lines)[i] # NL }, 1) >>
       \o LineContents(Tail(lines))

\* indices of the lines a writer of this run may remove from a table: in the
\* link table, rows of team 111592 whose player is on the roster being created
Removable(name) ==
  LET lines == ReadLines(files[name], 1, << >>)
  IN  IF name = "teamplayerlinks.txt"
      THEN { i \in { j \in DOMAIN lines :
                       /\ Cells(lines[j]).kind = "row"
                       /\ Cells(lines[j]).teamid = FreeAgentTeam } :
               Cells(lines[i]).playerid \in RosterIds }
      ELSE {}

\* a step keeps every line of every table, content and order, but for some
\* removable lines; what it adds comes after the lines it keeps
KeepsPriorLines ==
  \A name \in FileNames :
    \/ files'[name] = files[name]
    \/ \E old \in { LineContents(ReadLines(files[name], 1, << >>)) },
          new \in { LineContents(ReadLines(files'[name], 1, << >>)) },
          removable \in { Removable(name) } :
         \E removed \in SUBSET removable :
           IsPrefix(Keep(old, DOMAIN old \ removed, 1), new)

\* C13: every writer leaves the lines its target file had before the call in
\* place, content and relative order unchanged, header included; the only
\* lines a writer removes are link rows of team 111592 whose player id
\* belongs to the team being created.
C13_PriorLinesKept == [][KeepsPriorLines]_vars

\* all writers of a club have run on tables with old rows: the link of the
\* club's player 101 to team 111592 is gone, the link of player 99 to that
\* team and the other old rows are still there, and the new rows follow them
C13_Witness ==
  /\ pc = "done"
  /\ ~is_national_team
  /\ present = FileNames
  /\ 101 \in RosterIds
  /\ FreeAgentLinks({ 101 }) = {}
  /\ FreeAgentLinks({ 99 }) # {}
  /\ \A name \in FileNames \ { "teamnationlinks.txt", "teamstadiumlinks.txt" } :
       /\ Len(files[name]) >= 5
       /\ files[name][1].kind = "header"
       /\ files[name][3] = OldRows(name)[1]
       /\ TeamRows(name, team_id) # << >>

\* ---------------------------------------------------------------------- C14
\* the link rows of this run's team carry the bench codes of the claim: for a
\* club the substitute code at roster indices 11..17 and the reserve code from
\* index 18 on, for a national team the reserve code at every bench index
BenchCodesAsClaimed(national) ==
  LET rows == TeamRows("teamplayerlinks.txt", team_id)
  IN  \A i \in DOMAIN rows :
        i - 1 >= NumSlots
        => rows[i].position =
             IF national THEN ReserveCode
             ELSE IF i - 1 <= NumSlots + MaxSubs - 1 THEN SubCode
             ELSE ReserveCode

\* C14: in the appended link rows a club's bench rows at roster indices 11..17
\* carry the substitute code and those at indices >= 18 the reserve code; a
\* national team's bench rows all carry the reserve code, the code club
\* reserves carry, never the substitute code.
C14_BenchCodes ==
  LinkWriterDone => BenchCodesAsClaimed(is_national_team)

\* ---------------------------------------------------------------------- C15
\* a step of the writer of a file that does not exist: nothing is created or
\* modified, the failure is counted and the next writer of the sequence is up
MissingFileSkipped ==
  (pc \in WriterNames /\ pc \notin present)
  => /\ files' = files
     /\ present' = present
     /\ error_count' = error_count + 1
     /\ success_count' = success_count
     /\ pc' = After(pc)

\* at the summary every writer of the sequence has been executed
AllWritersExecuted ==
  pc = "summary" => success_count + error_count = Len(file_processes)

\* a writer's step and the count at the summary, as C15 states them
SkipsMissingAndGoesOn == MissingFileSkipped /\ AllWritersExecuted

\* C15: the writer of a missing target file reports failure without creating
\* or modifying any file, the failure is counted, and every remaining writer of
\* the sequence is still executed against its own file.
C15_MissingFileSkipped == [][SkipsMissingAndGoesOn]_vars

\* the teamsheet table is missing: its writer failed and was counted, the
\* table was not created, and the writers after it appended their rows
C15_Witness ==
  /\ pc = "summary"
  /\ present = FileNames \ { "default_teamsheets.txt" }
  /\ error_count = 1
  /\ success_count = Len(file_processes) - 1
  /\ TeamRows("default_teamsheets.txt", team_id) = << >>
  /\ TeamRows("formations.txt", team_id) # << >>
  /\ TeamRows("teamplayerlinks.txt", team_id) # << >>

\* ---------------------------------------------------------------------- C16
\* the tables that hold rows of this run's team: the writers that succeeded
WrittenTables == { name \in WriterNames : TeamRows(name, team_id) # << >> }

\* C16: process_files reports the team's creation as successful exactly when
\* at least one writer it executed reported success, and as failed only when
\* every executed writer failed; a writer's failure never stops the writers
\* after it, so all of them have been executed when it returns.
C16_SuccessIffAnyWriterSucceeded ==
  pc = "done"
  => /\ created[Len(created)] <=> (WrittenTables # {})
     /\ created[Len(created)] <=> (success_count >= 1)
     /\ ~created[Len(created)] => error_count = Len(file_processes)
     /\ success_count = Cardinality(WrittenTables)
     /\ success_count + error_count = Len(file_processes)

\* process_files has returned success for a team although the lineup-link
\* writer failed on its missing table; the writers after it still ran
C16_Witness ==
  /\ pc = "done"
  /\ created[Len(created)]
  /\ "teamplayerlinks.txt" \notin present
  /\ error_count = 1
  /\ TeamRows("teamstadiumlinks.txt", team_id) # << >>

\* ---------------------------------------------------------------------- C17
\* the pool loaded for this run has no goalkeeper or fewer than 10 field
\* players
InsufficientPool ==
  pc # "load" /\ (goalkeepers = << >> \/ Len(players) < NumSlots - 1)

\* the team of such a pool never gets to a writer, no table holds a row of
\* it, and once its load has failed the batch can go on to the next team
FailsAndBatchGoesOn ==
  InsufficientPool
  => /\ pc \in { "pass1", "pass2", "pass3", "failed" }
     /\ \A name \in FileNames : TeamRows(name, team_id) = << >>
     /\ (pc = "failed" /\ run < MaxRuns) => ENABLED NextTeam

\* no step taken for the team of such a pool modifies or creates a table
NoFileTouched ==
  InsufficientPool => (files' = files /\ present' = present)

\* C17: when the loaded pool has no goalkeeper or fewer than 10 field players,
\* loading/assembly fails for that team, no artifact file is modified for
\* that team, and the remaining teams of the batch are still processed.
C17_InsufficientPoolFailsAlone == []FailsAndBatchGoesOn /\ [][NoFileTouched]_vars

\* the player file of the previous team of the batch
PreviousFile ==
  LoadedRows([ seed EXCEPT !.a = (seed.a + MaxSeed) % (MaxSeed + 1) ],
             is_national_team)

\* the first team of the batch had 10 or more field players and no
\* goalkeeper: its load failed, nothing was reported for it, and the second
\* team has been written under the team id the first one did not use
C17_Witness ==
  /\ run = 2
  /\ pc = "done"
  /\ created = << TRUE >>
  /\ team_id = FirstTeamId
  /\ \A i \in DOMAIN PreviousFile : PreviousFile[i].pos1 # "GK"
  /\ Len(PreviousFile) >= NumSlots
  /\ TeamRows("teams.txt", team_id) # << >>

\* ---------------------------------------------------------------------- C18
\* the header of a table does not name the table's key column
HeaderLacksKey(name) ==
  /\ files[name] # << >>
  /\ files[name][1].kind = "header"
  /\ files[name][1].key = 0

\* the key rows of a table written by the runs of the batch
WrittenKeyRows(name) ==
  { i \in KeyRows(name) : files[name][i].teamid >= FirstTeamId }

\* C18: when the header lacks the key column name the writer still succeeds
\* and still derives the new key from the rows of the file, so a row written
\* by a run never carries the key of a row of the file that belongs to
\* another team: an old row or a row written by the run before.
C18_FallbackKeysDistinct ==
  \A name \in KeyFiles :
    HeaderLacksKey(name)
    => \A i \in WrittenKeyRows(name), j \in KeyRows(name) :
         files[name][i].teamid # files[name][j].teamid
         => files[name][i].key # files[name][j].key

\* ---------------------------------------------------------------------- C19
\* ids of the rows of players.txt that are of the requested nation, of
\* gender 0 and not blacklisted
SelectableIds(file) ==
  { file[i].playerid : i \in { j \in DOMAIN file :
                                 /\ file[j].nationality = NationId
                                 /\ file[j].gender = 0
                                 /\ file[j].playerid \notin Blacklist } }

\* ids of the rows of players.txt that fail one of the three conditions
ExcludedIds(file) ==
  { file[i].playerid : i \in { j \in DOMAIN file :
                                 \/ file[j].nationality # NationId
                                 \/ file[j].gender # 0
                                 \/ file[j].playerid \in Blacklist } }

\* the player ids in the rows the tables hold for this run's team
WrittenPlayerIds ==
  UNION { UNION { { files[name][i].playerid } \cup Range(files[name][i].pids) :
                  i \in { j \in DOMAIN files[name] :
                            /\ files[name][j].kind = "row"
                            /\ files[name][j].teamid = team_id } } :
          name \in FileNames } \ { -1 }

\* C19: every player in a national team's goalkeeper or field pool, and so
\* every player id the run writes to a table, comes from a row of players.txt
\* with the requested nationality, gender code 0 and an id that is not
\* blacklisted.
C19_NationalPoolFiltered ==
  (is_national_team /\ pc # "load")
  => \E file \in { MasterFile(seed) } :
       \E selectable \in { SelectableIds(file) } :
         /\ Ids(goalkeepers \o players) \subseteq selectable
         /\ Ids(goalkeepers \o players) \cap ExcludedIds(file) = {}
         /\ WrittenPlayerIds \subseteq selectable
         /\ InProcessFiles => captain_id \in selectable

\* a national team is written from a players.txt that also holds a foreign
\* goalkeeper, a woman and a blacklisted man, all rated above its lineup
C19_Witness ==
  /\ is_national_team
  /\ pc = "done"
  /\ { 201, 202, 240 } \subseteq ExcludedIds(MasterFile(seed))
  /\ Len(goalkeepers \o players) = seed.n
  /\ Cardinality(WrittenPlayerIds) >= NumSlots

\* ---------------------------------------------------------------------- C20
\* the eligible candidates of slot k whose score is the largest
TopScored(k) ==
  LET scores == [ i \in Eligible(k) |-> RatingMinusPenalty(players[i], k) ]
  IN  { i \in DOMAIN scores : \A j \in DOMAIN scores : scores[j] <= scores[i] }

\* rank of a candidate's position in the acceptable list of slot k
PositionRank(i, k) ==
  PriorityIndex(players[i].pos1, formation_slots[k].acceptable)

\* the slot's player comes before candidate i in the rating-descending pool
FirstInPool(k, i, all_field) ==
  \/ players[i] = starting_eleven[k]
  \/ \E a \in DOMAIN all_field :
       /\ all_field[a] = starting_eleven[k]
       /\ \A b \in 1..a : all_field[b] # players[i]

\* C20 as claimed: among several candidates of maximal score the best-fit
\* pass binds the slot to the one that comes first in the rating-descending
\* pool order, whatever the rank of its position in the acceptable list.
C20_TieToFirstInPoolOrder ==
  pc = "pass2"
  => \E all_field \in { SortOvrDesc(players) } :
       \A k \in 2..NumSlots :
         \E top \in { TopScored(k) } :
           top # {}
           => /\ \E i \in top : players[i] = starting_eleven[k]
              /\ \A i \in top : FirstInPool(k, i, all_field)

\* C20 (amended): among several candidates of maximal score the best-fit
\* pass binds the slot to one whose position ranks highest in the slot's
\* acceptable list, and among those to the one that comes first in the
\* rating-descending pool order.
C20_TieToBestPositionRank ==
  pc = "pass2"
  => \E all_field \in { SortOvrDesc(players) } :
       \A k \in 2..NumSlots :
         \E top \in { TopScored(k) } :
           top # {}
           => /\ \E i \in top : players[i] = starting_eleven[k]
              /\ \A i \in top :
                   \/ PositionRank(i, k)
                        > PriorityIndex(starting_eleven[k].pos1,
                                        formation_slots[k].acceptable)
                   \/ /\ PositionRank(i, k)
                           = PriorityIndex(starting_eleven[k].pos1,
                                           formation_slots[k].acceptable)
                      /\ FirstInPool(k, i, all_field)

\* after the best-fit pass a slot holds a candidate of maximal score although
\* a higher-rated candidate of the same score, of a position further down
\* the acceptable list, comes before it in the pool order; another slot was
\* tied between two candidates of the same position
C20_Witness ==
  /\ pc = "pass2"
  /\ \E k \in 2..NumSlots :
       \E i \in TopScored(k) :
         /\ players[i].ovr > starting_eleven[k].ovr
         /\ PoolRank(players[i]) < PoolRank(starting_eleven[k])
  /\ \E k \in 2..NumSlots :
       \E i \in TopScored(k) :
         /\ players[i] # starting_eleven[k]
         /\ players[i].pos1 = starting_eleven[k].pos1

\* ---------------------------------------------------------------------- C21
\* the tables of formations, mentalities and lineup links hold rows of this
\* run's team
FormationWritten ==
  /\ TeamRows("formations.txt", team_id) # << >>
  /\ TeamRows("default_mentalities.txt", team_id) # << >>
  /\ Len(TeamRows("teamplayerlinks.txt", team_id)) >= NumSlots

\* C21: for every lineup index i the role code of the i-th lineup-link row
\* equals the position{i} value of the formation row and of the active
\* mentality row appended in the same run, whichever formation was selected.
C21_LinkCodesFollowFormation ==
  FormationWritten
  => \A i \in 1..NumSlots :
       /\ TeamRows("teamplayerlinks.txt", team_id)[i].position
            = TeamRows("formations.txt", team_id)[1].positions[i]
       /\ TeamRows("teamplayerlinks.txt", team_id)[i].position
            = TeamRows("default_mentalities.txt", team_id)[1].positions[i]
\* ---------------------------------------------------------------------- C22
\* the teamsheet writer of this run has run
SheetWriterDone ==
  /\ InProcessFiles
  /\ \/ pc \in { "summary", "done" }
     \/ \E i, j \in DOMAIN file_processes :
          /\ file_processes[i] = "default_teamsheets.txt"
          /\ file_processes[j] = pc
          /\ i < j

\* C22: the teamsheet row of the run (its bench members and their order) is
\* the row the teamsheet writer computes from the pools and the lineup, the
\* same whether the writer ran before or after the lineup-link writer, also
\* for a national team whose roster exceeds 26.
C22_SheetRowIndependentOfOrder ==
  SheetWriterDone
  => TeamRows("default_teamsheets.txt", team_id)
       = << DataRow(-1, team_id, captain_id, -1,
                    SheetIds(player_ids,
                             SheetBench(goalkeepers, players, starting_eleven,
                                        is_national_team)), -1) >>
\* ---------------------------------------------------------------------- C23
\* the buckets of positions PASS 2 searches for a slot, in the slot's order
bucket_order(name) ==
  IF name \in { "RB", "RCB", "LCB", "LB" }
  THEN << Range(defense_pos), Range(midfield_pos) >>
  ELSE IF name \in { "CDM", "RCM", "LCM" }
       THEN << Range(midfield_pos), Range(defense_pos), Range(attack_pos) >>
       ELSE << Range(attack_pos), Range(midfield_pos) >>

\* the ids bound when PASS 2 reaches slot k: those of PASS 1 and those PASS 2
\* bound to earlier slots
UsedBefore(k) ==
  UsedIds(starting_eleven)
  \cup { starting_eleven'[j].playerid :
           j \in { i \in 1..(k - 1) : starting_eleven'[i] # NoPlayer } }

\* the slot was empty after PASS 1 and PASS 2 binds it to the highest-rated
\* unused field player of the first bucket of its order that has one
BestOfFirstBucket(k) ==
  LET order == bucket_order(formation_slots[k].name)
      unused(b) == { i \in DOMAIN players :
                      /\ players[i].playerid \notin UsedBefore(k)
                      /\ players[i].pos1 \in order[b] }
  IN  \A b \in DOMAIN order :
        (unused(b) # {} /\ \A c \in 1..(b - 1) : unused(c) = {})
        => /\ starting_eleven'[k].pos1 \in order[b]
           /\ \A i \in unused(b) : players[i].ovr <= starting_eleven'[k].ovr

Pass2TakesBestOfBucket ==
  pc = "pass2"
  => \A k \in 1..NumSlots :
       (starting_eleven[k] = NoPlayer /\ starting_eleven'[k] # NoPlayer)
       => BestOfFirstBucket(k)

\* C23: in the bucketed fallback pass a slot left empty by the best-fit pass
\* is bound to the highest-rated unused field player whose primary position
\* lies in the first bucket of the slot's order that has an unused player;
\* the order of the positions inside a bucket never prefers a lower-rated one.
C23_FallbackTakesBestOfBucket == [][Pass2TakesBestOfBucket]_vars
\* ---------------------------------------------------------------------- C24
\* the bench of a national roster before the cut
NationalBench ==
  Drop(LinkRosterUncapped(goalkeepers, players, starting_eleven, TRUE),
       NumSlots)

\* the link writer has written the roster of a national team
NationalLinksWritten == is_national_team /\ LinkWriterDone

\* the bench players whose pos1 lies in a set of positions
OfBucket(bench, positions) ==
  { i \in DOMAIN bench : bench[i].pos1 \in positions }

\* min(len(bucket), remaining_spots // 3)
ThirdShare(bench, positions, spots) ==
  Min2(Cardinality(OfBucket(bench, positions)), spots \div 3)

\* places from + 1 .. from + count of the cut roster hold players of the
\* positions, and no player of these positions left out so far is rated higher
BestOfBucketAt(bench, from, count, positions) ==
  \A i \in (from + 1)..(from + count) :
    /\ limited_squad[i].pos1 \in positions
    /\ \A j \in OfBucket(bench, positions) :
         bench[j] \notin Range(Take(limited_squad, from + count))
         => bench[j].ovr <= limited_squad[i].ovr

\* the cut roster: lineup, the backup goalkeeper, defender_share defenders,
\* midfielder_share midfielders, forward_share forwards, then the
\* highest-rated players left
CutRoster(bench, kept, defender_share, midfielder_share, forward_share) ==
  /\ Len(limited_squad) = max_squad_size
  /\ Take(limited_squad, NumSlots) = starting_eleven
  /\ kept > NumSlots => limited_squad[kept].pos1 = "GK"
  /\ BestOfBucketAt(bench, kept, defender_share, Range(defense_pos))
  /\ BestOfBucketAt(bench, kept + defender_share, midfielder_share,
                    Range(midfield_pos))
  /\ BestOfBucketAt(bench, kept + defender_share + midfielder_share,
                    forward_share, Range(attack_pos))
  /\ \A i \in (kept + defender_share + midfielder_share + forward_share + 1)
               ..max_squad_size :
       \A j \in DOMAIN bench :
         bench[j] \notin Range(limited_squad)
         => bench[j].ovr <= limited_squad[i].ovr

\* the forwards a cut of the bench takes beyond a third of the free slots
ForwardsBeyondThird(bench) ==
  LET spots == max_squad_size - NumSlots
                 - (IF OfBucket(bench, { "GK" }) # {} THEN 1 ELSE 0)
  IN  Min2(Cardinality(OfBucket(bench, Range(attack_pos))),
           spots - ThirdShare(bench, Range(defense_pos), spots)
                 - ThirdShare(bench, Range(midfield_pos), spots))
      - spots \div 3

\* C24 as claimed: the cut national roster keeps the lineup and one backup
\* goalkeeper, takes at most floor(remaining / 3) players from each of the
\* defender, midfielder and forward buckets, and tops up with the
\* highest-rated players left, whatever their position.
C24_EqualSharesThenTopUp ==
  NationalLinksWritten
  => \A bench \in { NationalBench } :
       NumSlots + Len(bench) > max_squad_size
       => \A gk \in { IF OfBucket(bench, { "GK" }) # {} THEN 1 ELSE 0 } :
            \A spots \in { max_squad_size - NumSlots - gk } :
              CutRoster(bench, NumSlots + gk,
                        ThirdShare(bench, Range(defense_pos), spots),
                        ThirdShare(bench, Range(midfield_pos), spots),
                        ThirdShare(bench, Range(attack_pos), spots))

\* C24: the cut national roster keeps the lineup and one backup goalkeeper,
\* takes at most floor(remaining / 3) players from each of the defender and
\* midfielder buckets and from the forward bucket at most the slots these two
\* shares leave free, and tops up with the highest-rated players left.
C24_ForwardsTakeTheRest ==
  NationalLinksWritten
  => \A bench \in { NationalBench } :
       NumSlots + Len(bench) > max_squad_size
       => \A gk \in { IF OfBucket(bench, { "GK" }) # {} THEN 1 ELSE 0 } :
            \A spots \in { max_squad_size - NumSlots - gk } :
              \A d \in { ThirdShare(bench, Range(defense_pos), spots) },
                 m \in { ThirdShare(bench, Range(midfield_pos), spots) } :
                CutRoster(bench, NumSlots + gk, d, m,
                          Min2(Cardinality(OfBucket(bench, Range(attack_pos))),
                               spots - d - m))

\* a roster was cut in which the forwards took more than a third of the slots
C24_Witness ==
  /\ NationalLinksWritten
  /\ NumSlots + Len(NationalBench) > max_squad_size
  /\ ForwardsBeyondThird(NationalBench) > 0
\* ---------------------------------------------------------------------- C25
\* the ids of the roster the teamsheet writer works with, lineup first
SheetRosterIds ==
  player_ids \o IdSeq(SheetBench(goalkeepers, players, starting_eleven,
                                is_national_team))

\* C25: the teamsheet row fills playerid0..playerid51 contiguously from index
\* 0 in roster order, repeats no player id, holds -1 in every slot at or
\* beyond the roster length, and references at most 52 roster members.
C25_SheetSlotsContiguousAndDistinct ==
  \A row \in Range(TeamRows("default_teamsheets.txt", team_id)) :
    InProcessFiles
    => \A roster \in { SheetRosterIds } :
         /\ DOMAIN row.pids = 1..SheetSlots
         /\ \A i \in 1..SheetSlots :
              row.pids[i] = IF i <= Len(roster) THEN roster[i] ELSE -1
         /\ \A i, j \in 1..Min2(Len(roster), SheetSlots) :
              i # j => row.pids[i] # row.pids[j]
\* ---------------------------------------------------------------------- C26
\* a writer of this run has failed before the writer that is up
FailedEarlier == pc \in WriterNames /\ error_count > 0

\* a writer's step never changes a file other than its own: what earlier
\* writers wrote stays, what later writers will write is not there yet
TouchesOwnFileOnly ==
  pc \in WriterNames
  => \A name \in FileNames \ { pc } : files'[name] = files[name]

\* after a failure the remaining writers leave their files as they were
LaterFilesUntouched == FailedEarlier => files'[pc] = files[pc]

\* after a failure the remaining writers are still executed, and the step of
\* each that succeeds appends rows of the team to its file
LaterWritersStillRun ==
  FailedEarlier
  => /\ pc' = IF \E i \in DOMAIN file_processes :
                    i < Len(file_processes) /\ file_processes[i] = pc
              THEN file_processes[1 + CHOOSE i \in DOMAIN file_processes :
                                        file_processes[i] = pc]
              ELSE "summary"
     /\ success_count' + error_count' = success_count + error_count + 1
     /\ success_count' > success_count
        => /\ files'[pc] # files[pc]
           /\ \E i \in DOMAIN files'[pc] :
                files'[pc][i].kind = "row" /\ files'[pc][i].teamid = team_id

NoRollbackLaterUntouched == TouchesOwnFileOnly /\ LaterFilesUntouched

NoRollbackLaterRun == TouchesOwnFileOnly /\ LaterWritersStillRun

\* C26 as claimed: when a writer fails partway through the sequence, the
\* files written by earlier writers stay modified and the files of all later
\* writers are left unmodified by the run.
C26_LaterFilesLeftUnmodified == [][NoRollbackLaterUntouched]_vars

\* C26: when a writer fails partway through the sequence, the files written
\* by earlier writers stay modified, and the later writers are still executed,
\* each one that succeeds modifying its own file in the same run.
C26_LaterWritersStillModify == [][NoRollbackLaterRun]_vars

\* the teamsheet writer failed on a missing table; the tables before it and
\* the tables after it hold the rows of the run
C26_Witness ==
  /\ pc = "summary"
  /\ "default_teamsheets.txt" \notin present
  /\ error_count > 0
  /\ TeamRows("teams.txt", team_id) # << >>
  /\ TeamRows("default_mentalities.txt", team_id) # << >>
  /\ TeamRows("formations.txt", team_id) # << >>
  /\ TeamRows("teamkits.txt", team_id) # << >>
\* ---------------------------------------------------------------------- C27
\* the rows of the shared table that a run appended
RunRows(p) == TeamRows(SharedTable, TeamOf(p))

\* a run has written the table back and its row is not in the table
LostUpdate(p) == league_runs[p].at = "done" /\ RunRows(p) = << >>

\* C27: the read-whole-file / write-whole-file pattern loses updates only
\* under interleaving: with strictly sequential runs on the same table the
\* row a finished run appended is never missing from the table (the lost
\* update itself, reached by overlapping runs, is C27_Witness).
C27_SequentialRunsLoseNothing ==
  (pc = "concurrent" /\ sequential) => \A p \in Procs : ~LostUpdate(p)

\* two runs overlapped, both have written, and the row of one is missing
C27_Witness ==
  /\ pc = "concurrent"
  /\ ~sequential
  /\ \A p \in Procs : league_runs[p].at = "done"
  /\ \E p \in Procs : LostUpdate(p)
  /\ \E p \in Procs : RunRows(p) # << >>
\* ---------------------------------------------------------------------- C28
\* C28: once a pool is loaded, by the club or by the national loader, no two
\* records of the goalkeeper and field pools together share a player id, also
\* when the player file holds the same id on more than one row.
C28_LoadedIdsDistinct ==
  pc \notin { "load", "detect", "concurrent" }
  => UniqueIds(goalkeepers \o players)
\* ---------------------------------------------------------------------- C29
\* slot 0 holds nobody or a goalkeeper of the pool, the other slots nobody or
\* a field player of the pool
SlotsKeepToTheirPool ==
  \A k \in DOMAIN starting_eleven :
    starting_eleven[k] # NoPlayer
    => IF formation_slots[k].name = "GK"
       THEN starting_eleven[k] \in Range(goalkeepers)
       ELSE starting_eleven[k] \in Range(players)

\* a pass leaves every slot that is bound as it is
NeverRebound ==
  pc \in { "pass1", "pass2", "pass3" }
  => \A k \in DOMAIN starting_eleven :
       starting_eleven[k] # NoPlayer => starting_eleven'[k] = starting_eleven[k]

\* C29: in all three passes slot 0 is only bound to a player of the
\* goalkeeper pool and slots 1-10 only to players of the field pool, also
\* when the other pool is exhausted, and no pass rebinds a slot that an
\* earlier pass bound.
C29_SlotsKeepToTheirPool == []SlotsKeepToTheirPool /\ [][NeverRebound]_vars

\* the three passes have run on a pool without a goalkeeper: slot 0 is left
\* empty although field players of the pool are unused
C29_Witness ==
  /\ pc = "failed"
  /\ starting_eleven # << >>
  /\ goalkeepers = << >>
  /\ starting_eleven[1] = NoPlayer
  /\ \A k \in 2..NumSlots : starting_eleven[k] \in Range(players)
  /\ \E i \in DOMAIN players :
       players[i].playerid \notin UsedIds(starting_eleven)
\* ---------------------------------------------------------------------- C30
\* C30: in a club batch the team built from the i-th selected file (0-based)
\* is written with team id starting_team_id + i, whether or not earlier files
\* of the batch failed to load.
C30_TeamIdFollowsFilePosition ==
  (pc \in WriterNames /\ ~is_national_team)
  => team_id = FirstTeamId + (run - 1)
====
